---- MODULE Spec2Model ----
(***************************************************************************)
(* Verification model of the Liquid collaboration / asset runtime:         *)
(*   - the authorization engine generated by                               *)
(*     lang/macro/src/collaboration/codegen/storage.rs                     *)
(*   - the linear asset handles generated by                               *)
(*     lang/macro/src/contract/codegen/contract/assets.rs                  *)
(*   - the contract ledger driven by examples/collaboration/shop           *)
(* Three specifications share one Init: SpecAuth, SpecAsset, SpecLedger.   *)
(***************************************************************************)
EXTENDS Integers, Sequences, FiniteSets, Bags, TLC

\* ------------------------------------------------------------------------
\* Bounds
\* ------------------------------------------------------------------------
\* longest authorizers list explored
MaxAuthLen == 2
\* deepest nesting of live AuthorizersGuards explored
MaxGuards == 2
\* units of the fungible asset the host lets the issuer issue in the runs explored
MaxSupply == 2
\* non-fungible tokens the host lets the issuer issue in the runs explored
MaxNft == 1
\* handles withdrawn within one external call
MaxHandles == 2
\* items offered for sale in the runs explored
MaxOffers == 1

\* ------------------------------------------------------------------------
\* Addresses
\* ------------------------------------------------------------------------
Address == {"owner", "vendor", "user"}

VARIABLES
    \* --- authorization engine (storage.rs) ---
    caller,         \* liquid_lang::env::get_caller() of the running external call
    authorizers,    \* Storage::__liquid_authorizers : Vec<Address>
    guards,         \* live AuthorizersGuards, outermost first; each records len
    lastCheck,      \* the __liquid_authorization_check call just made, and its result
    acquired,       \* per live guard: the list as it was at acquisition, and
                    \* whether the holder has since removed / overwritten below len
    lastDrop,       \* the AuthorizersGuard drop just made: list before / after
    \* --- assets (assets.rs) and the host's asset ledger ---
    balance,        \* host: get_asset_balance of the fungible asset, per account
    nft,            \* host: the issued non-fungible tokens, id -> (owner, uri)
    hostCommitted,  \* host: balance and nft as of the start of the running call
    handles,        \* the asset structs alive in the running call
    txState,        \* "idle" | "running" | "committed" | "aborted"
    lastWithdraw,   \* the withdraw_from_* call just made, and what it returned
    lastDeposit,    \* the deposit call just made: what it asked and what it got
    txLog,          \* what the running / last call did (handles made, host
                    \* transfers per handle, drops of unstored handles, issues)
    \* --- contract ledger (storage.rs tables, shop/src/lib.rs) ---
    store,          \* Storage: per template, id -> (state, abolished flag), as the
                    \* running call sees it
    storeCommitted, \* the tables as the host has them committed
    callState,      \* "idle" | "finished" | "panicked" | "committed" | "aborted"
    lastCall,       \* the external call just run: entry point, outcome, and the
                    \* authorization checks / assertions it went through
    \* --- single steps applied to drawn inputs ---
    removal,        \* buy_item's removal of the bought offer from a shop's
                    \* offer list: the inputs, and what the step gave
    chain,          \* an exercise chain run step by step in one call: what its
                    \* steps archived and created so far, and the step just made
    inherit,        \* the Bar contracts stored (tests/ui/pass/03-inherited-signers.rs)
                    \* and the sign! of a Bar just attempted
    \* --- the contract / interface attribute macros (contract/mod.rs) ---
    contractDefinitionCount,  \* thread_local CONTRACT_DEFINITION_COUNT : u8
    interfacesInfos,          \* thread_local INTERFACES_INFOS : Vec<InterfaceInfo>
    expansions,               \* the macro expansions of this compilation so far,
                              \* each with its input, its result and the
                              \* thread-locals before and after it
    \* --- i256 (primitives/src/types/int256.rs) ---
    codec,          \* an i256 value, its scale encoding and what decoding gives
    \* --- KvTableTest (examples/contract/kv-table-test) ---
    kv,             \* the host's table t_kvtest (rows by primary key), the
                    \* SetResult events emitted, the arguments of the last
                    \* successful set per id, and the call just made
    \* --- host storage (lang_core/env/engine/on_chain) ---
    hostStorage,    \* the bytes the host holds under each key, the keys removed
                    \* and not written since, the keys ever written, and the
                    \* storage call just made
    \* --- i256 arithmetic (primitives/src/types/int256.rs) ---
    arith,          \* two i256 operands, the operator applied to them and
                    \* what it gave: a value, a panic, None or Some
    \* --- events (contract/codegen/contract/events.rs) ---
    emitted         \* an event value, and the topics and the data that
                    \* emitting it hands to the host

authVars == <<caller, authorizers, guards, lastCheck, acquired, lastDrop>>
assetVars == <<balance, nft, hostCommitted, handles, txState, lastWithdraw, lastDeposit, txLog>>

ledgerVars == <<store, storeCommitted, callState, lastCall>>
macroVars == <<contractDefinitionCount, interfacesInfos, expansions>>
unitVars == <<removal, chain, inherit, macroVars, codec, kv, hostStorage, arith, emitted>>

vars == <<caller, authorizers, guards, lastCheck, acquired, lastDrop,
          balance, nft, hostCommitted, handles, txState, lastWithdraw, lastDeposit, txLog,
          store, storeCommitted, callState, lastCall,
          removal, chain, inherit,
          contractDefinitionCount, interfacesInfos, expansions, codec, kv, hostStorage, arith, emitted>>

\* ------------------------------------------------------------------------
\* Vec helpers
\* ------------------------------------------------------------------------
\* Vec::contains
Contains(v, a) == \E i \in 1..Len(v) : v[i] = a

\* Vec::truncate(len): keeps the first len elements, no effect if len >= v.len()
Truncate(v, len) == IF len >= Len(v) THEN v ELSE SubSeq(v, 1, len)

Range(v) == {v[i] : i \in 1..Len(v)}

\* iteration order of a BTreeSet<&Address>: ascending; any fixed order of the
\* set gives the same verdict, the loop below takes the elements one by one
RECURSIVE SetToSeq(_)
SetToSeq(S) ==
    IF S = {} THEN <<>>
    ELSE LET x == CHOOSE y \in S : TRUE IN <<x>> \o SetToSeq(S \ {x})

\* ------------------------------------------------------------------------
\* __liquid_authorization_check (storage.rs:128-146)
\* ------------------------------------------------------------------------
\* the `for party in parties` loop of the empty-authorizers branch
RECURSIVE CheckAgainstCaller(_, _)
CheckAgainstCaller(ps, c) ==
    IF ps = <<>> THEN TRUE
    ELSE IF Head(ps) # c THEN FALSE
    ELSE CheckAgainstCaller(Tail(ps), c)

\* the `for party in parties` loop of the non-empty branch
RECURSIVE CheckAgainstList(_, _)
CheckAgainstList(ps, auth) ==
    IF ps = <<>> THEN TRUE
    ELSE IF ~Contains(auth, Head(ps)) THEN FALSE
    ELSE CheckAgainstList(Tail(ps), auth)

\* mutant: the non-empty branch also lets the caller through
AuthorizationCheckAlsoCaller(parties, auth, c) ==
    IF auth = <<>>
    THEN CheckAgainstCaller(SetToSeq(parties), c)
    ELSE CheckAgainstList(SetToSeq(parties \ {c}), auth)

\* mutant: with an empty list every party is accepted
AuthorizationCheckEmptyPasses(parties, auth, c) ==
    IF auth = <<>>
    THEN TRUE
    ELSE CheckAgainstList(SetToSeq(parties), auth)

\* mutant: under a live guard every party is accepted
AuthorizationCheckNestedPasses(parties, auth, c) ==
    IF auth = <<>>
    THEN CheckAgainstCaller(SetToSeq(parties), c)
    ELSE TRUE

\* mutant: the empty branch accepts as soon as one party is the caller
AuthorizationCheckAnyCaller(parties, auth, c) ==
    IF auth = <<>>
    THEN parties = {} \/ c \in parties
    ELSE CheckAgainstList(SetToSeq(parties), auth)

\* __liquid_authorization_check(parties) with the authorizers list `auth`
\* and get_caller() = c
AuthorizationCheck(parties, auth, c) ==
    IF auth = <<>>
    THEN CheckAgainstCaller(SetToSeq(parties), c)
    ELSE CheckAgainstList(SetToSeq(parties), auth)

\* ------------------------------------------------------------------------
\* AuthorizersGuard (storage.rs:97-126)
\* ------------------------------------------------------------------------
\* mutant: drop forgets to truncate
GuardDropNoTruncate(auth, len) == auth

\* mutant: drop clears the whole list
GuardDropClear(auth, len) == <<>>

\* Drop for AuthorizersGuard: self.authorizers.truncate(self.len)
GuardDrop(auth, len) == Truncate(auth, len)

NoCheck == [parties |-> {}, auth |-> <<>>, caller |-> "owner", result |-> TRUE, n |-> 0]
NoDrop == [len |-> 0, atAcquire |-> <<>>, before |-> <<>>, after |-> <<>>,
           exit |-> "none", touched |-> FALSE, depth |-> 0]

ExitPaths == {"return", "early_return", "error"}

\* Storage::new (storage.rs:86-95): a fresh instance per external call,
\* __liquid_authorizers: Vec::new()
ExternalCall(c) ==
    /\ guards = <<>>
    /\ caller' = c
    /\ authorizers' = <<>>
    /\ UNCHANGED guards

\* __liquid_acquire_authorizers_guard (storage.rs:119-126)
AcquireGuard ==
    /\ Len(guards) < MaxGuards
    /\ guards' = Append(guards, [len |-> Len(authorizers)])
    /\ UNCHANGED <<caller, authorizers>>

\* guard.authorizers().push(a) (storage.rs:103-105)
GuardPush(a) ==
    /\ guards # <<>>
    /\ Len(authorizers) < MaxAuthLen
    /\ authorizers' = Append(authorizers, a)
    /\ UNCHANGED <<caller, guards>>

\* guard.authorizers().pop(): the &mut Vec lets the holder remove entries too
GuardPop ==
    /\ guards # <<>>
    /\ authorizers # <<>>
    /\ authorizers' = SubSeq(authorizers, 1, Len(authorizers) - 1)
    /\ UNCHANGED <<caller, guards>>

\* guard.authorizers()[i] = a: the &mut Vec lets the holder overwrite entries
GuardOverwrite(i, a) ==
    /\ guards # <<>>
    /\ i \in 1..Len(authorizers)
    /\ authorizers[i] # a
    /\ authorizers' = [authorizers EXCEPT ![i] = a]
    /\ UNCHANGED <<caller, guards>>

\* the innermost live guard goes out of scope (LIFO): Drop::drop
DropGuard ==
    /\ guards # <<>>
    /\ authorizers' = GuardDrop(authorizers, guards[Len(guards)].len)
    /\ guards' = SubSeq(guards, 1, Len(guards) - 1)
    /\ UNCHANGED caller

\* a call of __liquid_authorization_check(parties)
Check(parties) ==
    /\ lastCheck' = [parties |-> parties, auth |-> authorizers, caller |-> caller,
                     result |-> AuthorizationCheck(parties, authorizers, caller),
                     n |-> 1]
    /\ UNCHANGED <<caller, authorizers, guards, acquired, lastDrop>>
    /\ UNCHANGED <<assetVars, ledgerVars, unitVars>>

\* ------------------------------------------------------------------------
\* Assets (contract/codegen/contract/assets.rs) over the host's asset ledger
\* ------------------------------------------------------------------------
\* liquid_lang::env::get_address(): the address of the running contract
SelfAddress == "contract"
\* the accounts that call the asset contract in the runs explored
AssetCallers == {"owner", "user"}
Holders == AssetCallers \cup {SelfAddress}
\* accounts for which get_external_code_size is not 0
ContractAccounts == {SelfAddress}
\* token uris an issuer may pass to issue_to(to, uri: &str)
Uris == {"", "uri"}
Nobody == "nobody"

RECURSIVE SumOver(_, _)
SumOver(f, S) ==
    IF S = {} THEN 0
    ELSE LET x == CHOOSE y \in S : TRUE IN f[x] + SumOver(f, S \ {x})

\* the sum of the balances of all holders
TotalBalance(bal) == SumOver(bal, Holders)

Owns(tokens, account, id) == id \in DOMAIN tokens /\ tokens[id].owner = account

\* --- host primitives ---
\* get_asset_balance
BalanceOf(bal, owner) == bal[owner]

\* get_not_fungible_asset_info as EnvInstance returns it: the uri the host
\* stores for (account, id), String::new() when the host reports size 0
GetNotFungibleAssetInfo(tokens, account, id) ==
    IF Owns(tokens, account, id) THEN tokens[id].uri ELSE ""

\* issue_fungible_asset: credits `to`, refused beyond the total supply
HostIssueFungible(bal, to, amount) ==
    IF TotalBalance(bal) + amount <= MaxSupply
    THEN [ok |-> TRUE, bal |-> [bal EXCEPT ![to] = @ + amount]]
    ELSE [ok |-> FALSE, bal |-> bal]

\* issue_not_fungible_asset: the next token id, 0 when refused
HostIssueNotFungible(tokens, to, uri) ==
    LET issued == {i \in DOMAIN tokens : tokens[i].owner # Nobody}
        id == Cardinality(issued) + 1
    IN IF id \in DOMAIN tokens
       THEN [id |-> id, tokens |-> [tokens EXCEPT ![id] = [owner |-> to, uri |-> uri]]]
       ELSE [id |-> 0, tokens |-> tokens]

\* mutant: the host credits the recipient without debiting the source
HostTransferFungibleNoDebit(bal, from, to, amount) ==
    IF bal[from] >= amount
    THEN [ok |-> TRUE, bal |-> [bal EXCEPT ![to] = @ + amount]]
    ELSE [ok |-> FALSE, bal |-> bal]

\* transfer_asset of a fungible asset: moves amount from `from` to `to`,
\* false (and no change) when `from` holds less
HostTransferFungible(bal, from, to, amount) ==
    IF bal[from] >= amount
    THEN [ok |-> TRUE,
          bal |-> [a \in DOMAIN bal |->
                     IF a = from /\ a = to THEN bal[a]
                     ELSE IF a = from THEN bal[a] - amount
                     ELSE IF a = to THEN bal[a] + amount
                     ELSE bal[a]]]
    ELSE [ok |-> FALSE, bal |-> bal]

\* transfer_asset of a non-fungible asset: hands token id from `from` to `to`,
\* false (and no change) when `from` does not own it
HostTransferNotFungible(tokens, from, to, id) ==
    IF Owns(tokens, from, id)
    THEN [ok |-> TRUE, tokens |-> [tokens EXCEPT ![id].owner = to]]
    ELSE [ok |-> FALSE, tokens |-> tokens]

\* --- the generated asset struct ---
NoHandle == [hid |-> 0, kind |-> "none", value |-> 0, stored |-> FALSE,
             uri |-> "", from_self |-> FALSE]
None == [some |-> FALSE, handle |-> NoHandle]
Some(h) == [some |-> TRUE, handle |-> h]

\* mutant: withdraw_from_caller marks the handle as taken from the contract
FungibleWithdrawFromCallerWrongOrigin(bal, c, amount) ==
    IF BalanceOf(bal, c) < amount THEN None
    ELSE Some([NoHandle EXCEPT !.kind = "ft", !.value = amount, !.from_self = TRUE])

\* mutant: withdraw_from_caller keeps one unit of the balance back
FungibleWithdrawFromCallerStrict(bal, c, amount) ==
    IF BalanceOf(bal, c) <= amount THEN None
    ELSE Some([NoHandle EXCEPT !.kind = "ft", !.value = amount])

\* fungible withdraw_from_caller(amount) (assets.rs:142-153)
FungibleWithdrawFromCaller(bal, c, amount) ==
    LET caller_balance == BalanceOf(bal, c) IN
    IF caller_balance < amount THEN None
    ELSE Some([NoHandle EXCEPT !.kind = "ft", !.value = amount,
                               !.stored = FALSE, !.from_self = FALSE])

\* fungible withdraw_from_self(amount) (assets.rs:154-165)
FungibleWithdrawFromSelf(bal, amount) ==
    LET self_balance == BalanceOf(bal, SelfAddress) IN
    IF self_balance < amount THEN None
    ELSE Some([NoHandle EXCEPT !.kind = "ft", !.value = amount,
                               !.stored = FALSE, !.from_self = TRUE])

\* non-fungible withdraw_from_caller(id) (assets.rs:248-264)
NotFungibleWithdrawFromCaller(tokens, c, id) ==
    LET uri == GetNotFungibleAssetInfo(tokens, c, id) IN
    IF uri = "" THEN None
    ELSE Some([NoHandle EXCEPT !.kind = "nft", !.value = id, !.stored = FALSE,
                               !.uri = uri, !.from_self = FALSE])

\* non-fungible withdraw_from_self(id) (assets.rs:265-281)
NotFungibleWithdrawFromSelf(tokens, id) ==
    LET uri == GetNotFungibleAssetInfo(tokens, SelfAddress, id) IN
    IF uri = "" THEN None
    ELSE Some([NoHandle EXCEPT !.kind = "nft", !.value = id, !.stored = FALSE,
                               !.uri = uri, !.from_self = TRUE])

\* mutant: drop does not look at the stored flag
DropRequireNothing(h) == TRUE

\* Drop for the asset struct: require(self.stored, "Asset must be deposited
\* into an account"); TRUE when the drop lets the call go on
DropRequire(h) == h.stored

\* mutant: deposit borrows the handle (&mut self) instead of consuming it
DepositBorrows(hs, h) == hs

\* deposit(mut self, ..): the handle is moved into deposit and is gone after it
DepositConsumes(hs, h) == hs \ {h}

\* mutant: deposit calls issue_fungible_asset instead of transfer_asset
DepositIssuesInstead(bal, tokens, h, to, c, hostOk) ==
    IF h.kind = "ft"
    THEN [ok |-> hostOk,
          bal |-> IF hostOk THEN [bal EXCEPT ![to] = @ + h.value] ELSE bal,
          tokens |-> tokens]
    ELSE [ok |-> FALSE, bal |-> bal, tokens |-> tokens]

\* the host call of deposit: transfer_asset(to, ASSET_NAME, self.value or
\* self.id, self.from_self); the host takes from the contract when from_self,
\* from the caller otherwise, and may refuse for reasons of its own (~hostOk)
DepositTransfer(bal, tokens, h, to, c, hostOk) ==
    LET from == IF h.from_self THEN SelfAddress ELSE c IN
    IF ~hostOk THEN [ok |-> FALSE, bal |-> bal, tokens |-> tokens]
    ELSE IF h.kind = "ft"
    THEN LET r == HostTransferFungible(bal, from, to, h.value)
         IN [ok |-> r.ok, bal |-> r.bal, tokens |-> tokens]
    ELSE LET r == HostTransferNotFungible(tokens, from, to, h.value)
         IN [ok |-> r.ok, bal |-> bal, tokens |-> r.tokens]

\* mutant: deposit skips the capability check
SupportsAssetCheckSkipped(to, answer) == TRUE

\* call_supports_asset (assets.rs:60-82): TRUE when deposit may go on; a
\* recipient that is a contract is asked __liquid_supports_asset and must
\* answer Ok(true)
SupportsAssetCheck(to, answer) ==
    IF to \in ContractAccounts THEN answer ELSE TRUE

NoWithdraw == [fn |-> "none", kind |-> "none", arg |-> 0, result |-> None,
               source |-> Nobody, balBefore |-> <<>>, nftBefore |-> <<>>,
               handlesBefore |-> {}, stateAfter |-> "idle"]
NoDeposit == [called |-> FALSE, to |-> Nobody, is_contract |-> FALSE,
              answer |-> FALSE, transferred |-> FALSE, transfer_ok |-> FALSE,
              stored |-> FALSE]
NewLog == [made |-> 0, transfers |-> [i \in 1..MaxHandles |-> 0],
           unstoredDrops |-> 0, issued |-> FALSE]

\* require(false, ..) / a failed drop: the host reverts the call
AbortCall ==
    /\ balance' = hostCommitted.bal
    /\ nft' = hostCommitted.nft
    /\ handles' = {}
    /\ txState' = "aborted"

\* an external call by c enters the contract
BeginCall(c) ==
    /\ txState # "running"
    /\ caller' = c
    /\ txState' = "running"
    /\ hostCommitted' = [bal |-> balance, nft |-> nft]
    /\ handles' = {}
    /\ txLog' = NewLog
    /\ lastWithdraw' = NoWithdraw
    /\ lastDeposit' = NoDeposit
    /\ UNCHANGED <<balance, nft>>

\* fungible issue_to(to, amount) (assets.rs:135-141)
IssueTo(to, amount) ==
    /\ txState = "running"
    /\ balance' = HostIssueFungible(balance, to, amount).bal
    /\ txLog' = [txLog EXCEPT !.issued = TRUE]
    /\ lastWithdraw' = NoWithdraw
    /\ lastDeposit' = NoDeposit
    /\ UNCHANGED <<caller, nft, hostCommitted, handles, txState>>

\* non-fungible issue_to(to, uri) (assets.rs:238-247)
IssueNotFungibleTo(to, uri) ==
    /\ txState = "running"
    /\ nft' = HostIssueNotFungible(nft, to, uri).tokens
    /\ txLog' = [txLog EXCEPT !.issued = TRUE]
    /\ lastWithdraw' = NoWithdraw
    /\ lastDeposit' = NoDeposit
    /\ UNCHANGED <<caller, balance, hostCommitted, handles, txState>>

\* a withdraw_from_caller / withdraw_from_self call, fungible or not
Withdraw(fn, kind, arg) ==
    /\ txState = "running"
    /\ txLog.made < MaxHandles
    /\ LET r == IF kind = "ft"
                THEN IF fn = "caller"
                     THEN FungibleWithdrawFromCaller(balance, caller, arg)
                     ELSE FungibleWithdrawFromSelf(balance, arg)
                ELSE IF fn = "caller"
                     THEN NotFungibleWithdrawFromCaller(nft, caller, arg)
                     ELSE NotFungibleWithdrawFromSelf(nft, arg)
           h == [r.handle EXCEPT !.hid = txLog.made + 1]
       IN /\ handles' = IF r.some THEN handles \cup {h} ELSE handles
          /\ txLog' = IF r.some THEN [txLog EXCEPT !.made = @ + 1] ELSE txLog
          /\ lastDeposit' = NoDeposit
          /\ lastWithdraw' = [fn |-> fn, kind |-> kind, arg |-> arg,
                              result |-> IF r.some THEN Some(h) ELSE None,
                              source |-> IF fn = "caller" THEN caller ELSE SelfAddress,
                              balBefore |-> balance, nftBefore |-> nft,
                              handlesBefore |-> handles, stateAfter |-> "running"]
    /\ UNCHANGED <<caller, balance, nft, hostCommitted, txState>>

\* handle.deposit(to) (assets.rs:166-174, 282-290): the capability check,
\* the host transfer, then the drop of self at the end of deposit
Deposit(h, to, answer, hostOk) ==
    /\ txState = "running"
    /\ h \in handles
    /\ lastWithdraw' = NoWithdraw
    /\ UNCHANGED <<caller, hostCommitted>>
    /\ IF ~SupportsAssetCheck(to, answer)
       THEN /\ AbortCall
            /\ txLog' = [txLog EXCEPT !.unstoredDrops = @ + 1]
            /\ lastDeposit' = [NoDeposit EXCEPT !.called = TRUE, !.to = to,
                                  !.is_contract = (to \in ContractAccounts),
                                  !.answer = answer]
       ELSE LET r == DepositTransfer(balance, nft, h, to, caller, hostOk)
                self == [h EXCEPT !.stored = r.ok]
            IN /\ lastDeposit' = [called |-> TRUE, to |-> to,
                                  is_contract |-> (to \in ContractAccounts),
                                  answer |-> answer, transferred |-> TRUE,
                                  transfer_ok |-> r.ok, stored |-> self.stored]
               /\ IF DropRequire(self)
                  THEN /\ balance' = r.bal
                       /\ nft' = r.tokens
                       /\ handles' = DepositConsumes(handles, h)
                       /\ txLog' = [txLog EXCEPT !.transfers[h.hid] = @ + 1,
                                         !.unstoredDrops = @ + (IF self.stored THEN 0 ELSE 1)]
                       /\ UNCHANGED txState
                  ELSE /\ AbortCall
                       /\ txLog' = [txLog EXCEPT !.transfers[h.hid] = @ + 1,
                                                 !.unstoredDrops = @ + 1]

\* a live handle goes out of scope before the end of the call
DropHandle(h) ==
    /\ txState = "running"
    /\ h \in handles
    /\ lastWithdraw' = NoWithdraw
    /\ lastDeposit' = NoDeposit
    /\ txLog' = [txLog EXCEPT !.unstoredDrops = @ + (IF h.stored THEN 0 ELSE 1)]
    /\ UNCHANGED <<caller, hostCommitted>>
    /\ IF DropRequire(h)
       THEN /\ handles' = handles \ {h}
            /\ UNCHANGED <<balance, nft, txState>>
       ELSE AbortCall

\* the contract method returns: the handles still alive are dropped, then
\* the call commits
EndCall ==
    /\ txState = "running"
    /\ lastWithdraw' = NoWithdraw
    /\ lastDeposit' = NoDeposit
    /\ txLog' = [txLog EXCEPT !.unstoredDrops =
                    @ + Cardinality({h \in handles : ~h.stored})]
    /\ UNCHANGED <<caller, hostCommitted>>
    /\ IF \A h \in handles : DropRequire(h)
       THEN /\ handles' = {}
            /\ txState' = "committed"
            /\ UNCHANGED <<balance, nft>>
       ELSE AbortCall

\* ------------------------------------------------------------------------
\* Contract ledger: the per-template tables of Storage (storage.rs:42-55)
\* and the lifecycle the collaboration macro generates around them
\* ------------------------------------------------------------------------
Tags == {"Iou", "Item", "Offer", "Shop", "VendorInvite", "VendorRelationship",
         "UserInvite", "UserRelationship"}

\* the #[liquid(signers)] fields of each template (shop/src/lib.rs)
Signers(tag, state) ==
    CASE tag = "Iou" -> {state.issuer}
      [] tag = "Item" -> {state.producer}
      [] tag = "Offer" -> {state.owner, state.vendor}
      [] tag = "Shop" -> {state.owner}
      [] tag = "VendorInvite" -> {state.owner}
      [] tag = "VendorRelationship" -> {state.owner, state.vendor}
      [] tag = "UserInvite" -> {state.owner}
      [] tag = "UserRelationship" -> {state.owner, state.user}

\* the value a body reads from a contract it failed to fetch: never stored,
\* the call has already failed when it is read
DefaultState(tag) ==
    CASE tag = "Iou" -> [issuer |-> Nobody, owner |-> Nobody, amount |-> 0, currency |-> ""]
      [] tag = "Item" -> [producer |-> Nobody, owner |-> Nobody, label |-> "",
                          quantity |-> 0, unit |-> "", observers |-> <<>>]
      [] tag = "Offer" -> [owner |-> Nobody, vendor |-> Nobody, item_id |-> 0,
                           price |-> 0, currency |-> "", users |-> <<>>]
      [] tag = "Shop" -> [owner |-> Nobody, vendors |-> <<>>, users |-> <<>>,
                          offer_ids |-> <<>>]
      [] tag = "VendorInvite" -> [owner |-> Nobody, vendor |-> Nobody]
      [] tag = "VendorRelationship" -> [owner |-> Nobody, vendor |-> Nobody]
      [] tag = "UserInvite" -> [owner |-> Nobody, user |-> Nobody]
      [] tag = "UserRelationship" -> [owner |-> Nobody, user |-> Nobody]

EmptyStore == [t \in Tags |-> <<>>]

Exists(st, tag, id) == id \in 1..Len(st[tag])
Archived(st, tag, id) == Exists(st, tag, id) /\ st[tag][id].archived
\* mutant: an archived contract still counts as Active
ActiveIgnoresFlag(st, tag, id) == Exists(st, tag, id)

Active(st, tag, id) == Exists(st, tag, id) /\ ~st[tag][id].archived
StateOf(st, tag, id) ==
    IF Exists(st, tag, id) THEN st[tag][id].state ELSE DefaultState(tag)

\* the execution context of one external call: the tables, the authorizers
\* list, the number of live guards, and whether an assertion has failed
NewContext(st) ==
    [st |-> st, au |-> <<>>, depth |-> 0, ok |-> TRUE, err |-> "", log |-> <<>>]

\* the trace of one call: each lifecycle operation with the contract it
\* addressed, whether that contract was stored and whether it was archived
\* when the operation began,
\* the parties it required, the list and the number of live guards it ran
\* under, and whether it passed
Logged(ctx, op, tag, id, required, passed) ==
    [ctx EXCEPT !.log = Append(@, [op |-> op, tag |-> tag, id |-> id,
                                   existed |-> (tag \in Tags /\ Exists(ctx.st, tag, id)),
                                   archived |-> (tag \in Tags /\ Archived(ctx.st, tag, id)),
                                   required |-> required, au |-> ctx.au,
                                   depth |-> ctx.depth, passed |-> passed])]

\* mutant: a failed assertion is swallowed and the call goes on
FailSwallowed(ctx, e) == ctx

\* a failed assertion: nothing after it runs, the failure reaches the
\* transaction boundary
Fail(ctx, e) == [ctx EXCEPT !.ok = FALSE, !.err = e]

\* mutant: fetch requires the signers of the contract to be authorized
FetchRequiresSigners(ctx, tag, id) ==
    IF ~ctx.ok THEN ctx
    ELSE IF Active(ctx.st, tag, id)
            /\ Signers(tag, StateOf(ctx.st, tag, id)) \subseteq Range(ctx.au)
         THEN Logged(ctx, "fetch", tag, id, {}, TRUE)
         ELSE Fail(Logged(ctx, "fetch", tag, id, {}, FALSE), "Unauthorized")

\* mutant: fetch returns whatever the table holds, or a default
FetchUnchecked(ctx, tag, id) ==
    IF ~ctx.ok THEN ctx ELSE Logged(ctx, "fetch", tag, id, {}, TRUE)

\* fetch(contract_id): the contract must be Active; no authorization check
Fetch(ctx, tag, id) ==
    IF ~ctx.ok THEN ctx
    ELSE IF Active(ctx.st, tag, id)
         THEN Logged(ctx, "fetch", tag, id, {}, TRUE)
         ELSE Fail(Logged(ctx, "fetch", tag, id, {}, FALSE), "NotFound")

\* mutant: the assertion is compiled out
RequireNothing(ctx, cond) ==
    IF ~ctx.ok THEN ctx ELSE Logged(ctx, "assert", "", 0, {}, TRUE)

\* assert_eq!(..) of a choice body
Require(ctx, cond) ==
    IF ~ctx.ok THEN ctx
    ELSE IF cond THEN Logged(ctx, "assert", "", 0, {}, TRUE)
         ELSE Fail(Logged(ctx, "assert", "", 0, {}, FALSE), "InvariantViolation")

\* mutant: put reuses the last id of the table
PutReusesLast(st, tag, state) ==
    IF st[tag] = <<>>
    THEN [st EXCEPT ![tag] = <<[state |-> state, archived |-> FALSE]>>]
    ELSE [st EXCEPT ![tag][Len(st[tag])] = [state |-> state, archived |-> FALSE]]

\* allocate + put: the next id of the template's table, stored Active
Put(st, tag, state) ==
    [st EXCEPT ![tag] = Append(@, [state |-> state, archived |-> FALSE])]

\* mutant: archive also blanks the stored state
SetArchivedDropsState(st, tag, id) ==
    [st EXCEPT ![tag][id] = [state |-> DefaultState(tag), archived |-> TRUE]]

\* archive(template_tag, id): sets the archived flag, the state is kept
SetArchived(st, tag, id) ==
    [st EXCEPT ![tag][id].archived = TRUE]

\* sign! { Template => .. }: the signers of the new state must be authorized
Sign(ctx, c, tag, state) ==
    IF ~ctx.ok THEN [c |-> ctx, id |-> 0]
    ELSE LET required == Signers(tag, state)
             passed == AuthorizationCheck(required, ctx.au, c)
             id == Len(ctx.st[tag]) + 1
             l == Logged(ctx, "sign", tag, id, required, passed)
         IN IF passed
            THEN [c |-> [l EXCEPT !.st = Put(@, tag, state)], id |-> id]
            ELSE [c |-> Fail(l, "Unauthorized"), id |-> 0]

\* entry of a right: fetch the Active contract, check that the parties the
\* right belongs to are authorized, then acquire an AuthorizersGuard and
\* extend the list with the contract's signers and those parties
ExerciseBegin(ctx, c, tag, id, owner_field) ==
    IF ~ctx.ok THEN ctx
    ELSE IF ~Active(ctx.st, tag, id)
         THEN Fail(Logged(ctx, "exercise", tag, id, {}, FALSE), "NotFound")
    ELSE LET state == StateOf(ctx.st, tag, id)
             required == {state[owner_field]}
             passed == AuthorizationCheck(required, ctx.au, c)
             l == Logged(ctx, "exercise", tag, id, required, passed)
         IN IF passed
            THEN [l EXCEPT !.au = @ \o SetToSeq(Signers(tag, state) \cup required),
                           !.depth = @ + 1]
            ELSE Fail(l, "Unauthorized")

\* mutant: the exit of a right never archives
ExerciseEndKeepsActive(ctx, n, tag, id, consuming) ==
    IF ~ctx.ok THEN ctx
    ELSE [ctx EXCEPT !.au = GuardDrop(@, n), !.depth = @ - 1]

\* exit of a right entered when the list had length n: the guard is dropped
\* and, for a right that takes self by value, the contract is archived
ExerciseEnd(ctx, n, tag, id, consuming) ==
    IF ~ctx.ok THEN ctx
    ELSE [ctx EXCEPT !.au = GuardDrop(@, n),
                     !.depth = @ - 1,
                     !.st = IF consuming THEN SetArchived(@, tag, id) ELSE @]

\* variant: removes only the first occurrence
RECURSIVE FilterNotFirstOnly(_, _)
FilterNotFirstOnly(v, id) ==
    IF v = <<>> THEN <<>>
    ELSE IF Head(v) # id THEN <<Head(v)>> \o FilterNotFirstOnly(Tail(v), id)
         ELSE Tail(v)

\* Vec<ContractId>::into_iter().filter(|x| *x != id).collect()
RECURSIVE FilterNot(_, _)
FilterNot(v, id) ==
    IF v = <<>> THEN <<>>
    ELSE IF Head(v) # id THEN <<Head(v)>> \o FilterNot(Tail(v), id)
         ELSE FilterNot(Tail(v), id)

\* width given to usize: the wasm target has 32 bits, narrowed here so that
\* the wrapped value stays an integer TLC can hold; every Vec of the model is
\* far shorter than 2^UsizeBits
UsizeBits == 16

\* Vec::len() - 1 on usize: with overflow checks the subtraction of 1 from 0
\* panics, without them it wraps around
UsizeDec(n, checked) ==
    IF n >= 1 THEN [ok |-> TRUE, v |-> n - 1]
    ELSE IF checked THEN [ok |-> FALSE, v |-> 0]
         ELSE [ok |-> TRUE, v |-> (n - 1) % (2^UsizeBits)]

\* buy_item: filter the bought offer out of the shop's list, then
\* assert_eq!(new_offer_ids.len(), shop.offer_ids.len() - 1)
RemoveOffer(offer_ids, offer_id, checked) ==
    LET new_offer_ids == FilterNot(offer_ids, offer_id)
        expected == UsizeDec(Len(offer_ids), checked)
    IN [ok |-> expected.ok /\ Len(new_offer_ids) = expected.v,
        new_offer_ids |-> new_offer_ids]

\* --- the rights of examples/collaboration/shop ---
\* The statements of a longer right are listed in a tuple, in their order,
\* with the result as its last element: a tuple is evaluated from left to
\* right, so each statement finds the one before it done.
\* Iou::transfer_iou(self, new_owner), belongs_to = "owner"
transfer_iou(ctx, c, id, new_owner) ==
    LET n == Len(ctx.au)
        b == ExerciseBegin(ctx, c, "Iou", id, "owner")
        self == StateOf(ctx.st, "Iou", id)
        s == Sign(b, c, "Iou", [self EXCEPT !.owner = new_owner])
    IN [c |-> ExerciseEnd(s.c, n, "Iou", id, TRUE), r |-> s.id]

\* Item::transfer_item(self, new_owner), rights_belong_to = "owner"
transfer_item(ctx, c, id, new_owner) ==
    LET n == Len(ctx.au)
        b == ExerciseBegin(ctx, c, "Item", id, "owner")
        self == StateOf(ctx.st, "Item", id)
        s == Sign(b, c, "Item", [self EXCEPT !.owner = new_owner])
    IN [c |-> ExerciseEnd(s.c, n, "Item", id, TRUE), r |-> s.id]

\* variant: the disclosure rewrites the observers of the stored Item and
\* hands the same id back
disclose_in_place(ctx, c, id, users) ==
    LET n == Len(ctx.au)
        b == ExerciseBegin(ctx, c, "Item", id, "owner")
        w == IF b.ok THEN [b EXCEPT !.st["Item"][id].state.observers = users] ELSE b
    IN [c |-> ExerciseEnd(w, n, "Item", id, FALSE), r |-> id]

\* Item::disclose(self, users), rights_belong_to = "owner"
disclose(ctx, c, id, users) ==
    LET n == Len(ctx.au)
        b == ExerciseBegin(ctx, c, "Item", id, "owner")
        self == StateOf(ctx.st, "Item", id)
        s == Sign(b, c, "Item", [self EXCEPT !.observers = users])
    IN [c |-> ExerciseEnd(s.c, n, "Item", id, TRUE), r |-> s.id]

\* mutant: settle hands the item back to the vendor of the offer
settle_to_vendor(ctx, c, id, buyer) ==
    LET n == Len(ctx.au)
        b == ExerciseBegin(ctx, c, "Offer", id, "owner")
        self == StateOf(ctx.st, "Offer", id)
        t == transfer_item(b, c, self.item_id, self.vendor)
    IN [c |-> ExerciseEnd(t.c, n, "Offer", id, TRUE), r |-> t.r]

\* Offer::settle(self, buyer), belongs_to = "owner"
settle(ctx, c, id, buyer) ==
    LET n == Len(ctx.au)
        b == ExerciseBegin(ctx, c, "Offer", id, "owner")
        self == StateOf(ctx.st, "Offer", id)
        t == transfer_item(b, c, self.item_id, buyer)
    IN [c |-> ExerciseEnd(t.c, n, "Offer", id, TRUE), r |-> t.r]

\* Shop::invite_vendor(mut self, vendor), rights_belong_to = "owner"
invite_vendor(ctx, c, id, vendor) ==
    LET n == Len(ctx.au)
        b == ExerciseBegin(ctx, c, "Shop", id, "owner")
        self == StateOf(ctx.st, "Shop", id)
        pushed == [self EXCEPT !.vendors = Append(@, vendor)]
        s1 == Sign(b, c, "Shop", pushed)
        s2 == Sign(s1.c, c, "VendorInvite", [vendor |-> vendor, owner |-> self.owner])
    IN [c |-> ExerciseEnd(s2.c, n, "Shop", id, TRUE), r |-> <<s1.id, s2.id>>]

\* Shop::invite_user(mut self, user), rights_belong_to = "owner"
invite_user(ctx, c, id, user) ==
    LET n == Len(ctx.au)
        b == ExerciseBegin(ctx, c, "Shop", id, "owner")
        self == StateOf(ctx.st, "Shop", id)
        pushed == [self EXCEPT !.users = Append(@, user)]
        s1 == Sign(b, c, "Shop", pushed)
        s2 == Sign(s1.c, c, "UserInvite", [user |-> user, owner |-> self.owner])
    IN [c |-> ExerciseEnd(s2.c, n, "Shop", id, TRUE), r |-> <<s1.id, s2.id>>]

\* VendorInvite::accept_vendor_invite(self), belongs_to = "vendor"
accept_vendor_invite(ctx, c, id) ==
    LET n == Len(ctx.au)
        b == ExerciseBegin(ctx, c, "VendorInvite", id, "vendor")
        self == StateOf(ctx.st, "VendorInvite", id)
        s == Sign(b, c, "VendorRelationship", [owner |-> self.owner, vendor |-> self.vendor])
    IN [c |-> ExerciseEnd(s.c, n, "VendorInvite", id, TRUE), r |-> s.id]

\* UserInvite::accept_user_invite(self), belongs_to = "user"
accept_user_invite(ctx, c, id) ==
    LET n == Len(ctx.au)
        b == ExerciseBegin(ctx, c, "UserInvite", id, "user")
        self == StateOf(ctx.st, "UserInvite", id)
        s == Sign(b, c, "UserRelationship", [owner |-> self.owner, user |-> self.user])
    IN [c |-> ExerciseEnd(s.c, n, "UserInvite", id, TRUE), r |-> s.id]

\* VendorRelationship::offer_item(&self, shop_id, item_id, price, currency),
\* belongs_to = "vendor"
offer_item(ctx, c, id, shop_id, item_id, price, currency) ==
    LET n == Len(ctx.au)
        b == ExerciseBegin(ctx, c, "VendorRelationship", id, "vendor")
        self == StateOf(ctx.st, "VendorRelationship", id)
        f == Fetch(b, "Shop", shop_id)
        shop == StateOf(f.st, "Shop", shop_id)
        users == Append(shop.users, self.owner)
        disclosed_item == disclose(f, c, item_id, users)
        offer == Sign(disclosed_item.c, c, "Offer",
                      [item_id |-> disclosed_item.r, users |-> shop.users,
                       price |-> price, currency |-> currency,
                       owner |-> self.owner, vendor |-> self.vendor])
        offer_ids == Append(shop.offer_ids, offer.id)
        new_shop == Sign(offer.c, c, "Shop", [shop EXCEPT !.offer_ids = offer_ids])
    IN <<b, f, disclosed_item, offer, new_shop,
         [c |-> ExerciseEnd(new_shop.c, n, "VendorRelationship", id, FALSE),
          r |-> <<new_shop.id, offer.id>>]>>[6]

\* UserRelationship::buy_item(&self, shop_id, offer_id, iou_id),
\* belongs_to = "user"
buy_item(ctx, c, id, shop_id, offer_id, iou_id) ==
    LET n == Len(ctx.au)
        b == ExerciseBegin(ctx, c, "UserRelationship", id, "user")
        self == StateOf(ctx.st, "UserRelationship", id)
        f1 == Fetch(b, "Shop", shop_id)
        shop == StateOf(f1.st, "Shop", shop_id)
        f2 == Fetch(f1, "Offer", offer_id)
        offer == StateOf(f2.st, "Offer", offer_id)
        f3 == Fetch(f2, "Iou", iou_id)
        iou == StateOf(f3.st, "Iou", iou_id)
        a1 == Require(f3, offer.price = iou.amount)
        a2 == Require(a1, offer.currency = iou.currency)
        removed == RemoveOffer(shop.offer_ids, offer_id, TRUE)
        new_offer_ids == removed.new_offer_ids
        a3 == Require(a2, removed.ok)
        new_shop == Sign(a3, c, "Shop", [shop EXCEPT !.offer_ids = new_offer_ids])
        vendor == offer.vendor
        new_item == settle(new_shop.c, c, offer_id, self.user)
        new_iou == transfer_iou(new_item.c, c, iou_id, vendor)
    IN <<b, f1, f2, f3, a1, a2, a3, new_shop, new_item, new_iou,
         [c |-> ExerciseEnd(new_iou.c, n, "UserRelationship", id, FALSE),
          r |-> <<new_shop.id, new_item.r, new_iou.r>>]>>[11]

\* --- external calls into the collaboration ---
NoCall == [entry |-> "none", caller |-> Nobody, ok |-> TRUE, err |-> "", log |-> <<>>,
           undone |-> FALSE]

\* the contracts a run with MaxOffers offers needs: one invitation and one
\* relationship per role, a new Shop per invitation, offer and purchase, a
\* disclosed and a transferred copy of each offered Item, a transferred copy
\* of each Iou
Cap(tag) ==
    CASE tag = "Shop" -> 3 + 2 * MaxOffers
      [] tag = "Item" -> 3 * MaxOffers
      [] tag = "Iou" -> 2 * MaxOffers
      [] tag = "Offer" -> MaxOffers
      [] OTHER -> 1

WithinBounds(st) == \A tag \in Tags : Len(st[tag]) <= Cap(tag)

\* the body of an external call has run to its end or to a failed assertion:
\* the tables hold whatever it wrote up to there
Ran(entry, c, ctx) ==
    /\ callState \in {"idle", "committed", "aborted"}
    /\ WithinBounds(ctx.st)
    /\ caller' = c
    /\ store' = ctx.st
    /\ callState' = IF ctx.ok THEN "finished" ELSE "panicked"
    /\ lastCall' = [entry |-> entry, caller |-> c, ok |-> ctx.ok, err |-> ctx.err,
                    log |-> ctx.log, undone |-> FALSE]
    /\ UNCHANGED storeCommitted

\* the call returned: Flush::flush and the host commits the writes
Commit ==
    /\ callState = "finished"
    /\ storeCommitted' = store
    /\ callState' = "committed"
    /\ lastCall' = NoCall
    /\ UNCHANGED <<caller, store>>

\* mutant: the revert leaves the writes made before the failure in place
RevertedStoreKeepsWrites(working, committed) == working

\* EnvInstance::revert (on_chain/mod.rs:163-169): the host discards every
\* write of the call
RevertedStore(working, committed) == committed

\* the call panicked: revert; undone records whether the call had written
Revert ==
    /\ callState = "panicked"
    /\ store' = RevertedStore(store, storeCommitted)
    /\ callState' = "aborted"
    /\ lastCall' = [NoCall EXCEPT !.undone = (store # storeCommitted)]
    /\ UNCHANGED <<caller, storeCommitted>>

\* the creation entry point of a template; the runs explored create one
\* contract per template from outside, the others come from rights
CallCreate(c, tag, state) ==
    /\ store[tag] = <<>>
    /\ Ran("create", c, Sign(NewContext(store), c, tag, state).c)
CallTransferIou(c, id, new_owner) ==
    Ran("transfer_iou", c, transfer_iou(NewContext(store), c, id, new_owner).c)
CallInviteVendor(c, id, vendor) ==
    Ran("invite_vendor", c, invite_vendor(NewContext(store), c, id, vendor).c)
CallInviteUser(c, id, user) ==
    Ran("invite_user", c, invite_user(NewContext(store), c, id, user).c)
CallAcceptVendorInvite(c, id) ==
    Ran("accept_vendor_invite", c, accept_vendor_invite(NewContext(store), c, id).c)
CallAcceptUserInvite(c, id) ==
    Ran("accept_user_invite", c, accept_user_invite(NewContext(store), c, id).c)
CallOfferItem(c, id, shop_id, item_id, price, currency) ==
    Ran("offer_item", c,
        offer_item(NewContext(store), c, id, shop_id, item_id, price, currency).c)
CallBuyItem(c, id, shop_id, offer_id, iou_id) ==
    Ran("buy_item", c, buy_item(NewContext(store), c, id, shop_id, offer_id, iou_id).c)

NoRemoval == [offer_ids |-> <<>>, offer_id |-> 0, checked |-> TRUE, done |-> FALSE,
              ok |-> FALSE, new_offer_ids |-> <<>>]

NoStep == [op |-> "none", tag |-> "", id |-> 0, from |-> 1,
           archived_before |-> {}, created_before |-> {}]
NoChain == [steps |-> 0, archived |-> {}, created |-> {}, last |-> NoStep]

NoInherit == [bars |-> <<>>,
              last |-> [done |-> FALSE, bar |-> [foo |-> [addr |-> Nobody]],
                        signers |-> {}, passed |-> FALSE]]

\* i256(BigInt): sign and magnitude, the magnitude as big-endian bytes
\* without leading zeros; zero has the empty magnitude and no sign
Zero256 == [neg |-> FALSE, mag |-> <<>>]
NoCodec == [x |-> Zero256, stage |-> "none", encoded |-> <<>>, panicked |-> FALSE,
            decoded |-> Zero256]

NoKvCall == [op |-> "none", id |-> "", price |-> Zero256, name |-> <<>>,
             answer |-> "", ok |-> TRUE, ret |-> <<>>, emitted |-> 0]
NoKv == [created |-> FALSE, rows |-> <<>>, events |-> <<>>, latest |-> <<>>,
         last |-> NoKvCall]

\* host storage: no key holds a value, no call made yet
NoStorageCall == [op |-> "none", key |-> "", ty |-> "", ok |-> TRUE, err |-> "none",
                  v |-> <<>>]
\* the storage keys of the runs explored
StorageKeys == {"k1", "k2"}
NoStorage == [st |-> [k \in StorageKeys |-> <<>>], removed |-> {}, written |-> {},
              last |-> NoStorageCall]

\* i256 arithmetic: operands not drawn, no operator applied yet
NoOutcome == [kind |-> "none_yet", cause |-> "", v |-> Zero256]
NoArith == [a |-> Zero256, b |-> Zero256, form |-> "none", method |-> "",
            out |-> NoOutcome]

\* events: no event drawn, nothing emitted yet
NoEmit == [event |-> [name |-> "", fields |-> <<>>], done |-> FALSE,
           topics |-> <<>>, data |-> <<>>]

Init ==
    /\ caller \in Address
    /\ authorizers = <<>>
    /\ guards = <<>>
    /\ lastCheck = NoCheck
    /\ acquired = <<>>
    /\ lastDrop = NoDrop
    /\ balance = [a \in Holders |-> 0]
    /\ nft = [i \in 1..MaxNft |-> [owner |-> Nobody, uri |-> ""]]
    /\ hostCommitted = [bal |-> balance, nft |-> nft]
    /\ handles = {}
    /\ txState = "idle"
    /\ lastWithdraw = NoWithdraw
    /\ lastDeposit = NoDeposit
    /\ txLog = NewLog
    /\ store = EmptyStore
    /\ storeCommitted = EmptyStore
    /\ callState = "idle"
    /\ lastCall = NoCall
    /\ removal = NoRemoval
    /\ chain = NoChain
    /\ inherit = NoInherit
    /\ contractDefinitionCount = 0
    /\ interfacesInfos = <<>>
    /\ expansions = <<>>
    /\ codec = NoCodec
    /\ kv = NoKv
    /\ hostStorage = NoStorage
    /\ arith = NoArith
    /\ emitted = NoEmit

\* ------------------------------------------------------------------------
\* SpecAuth: the authorization check under every caller / list / guard depth
\* ------------------------------------------------------------------------
AuthFrame == lastCheck' = NoCheck /\ UNCHANGED <<acquired, lastDrop>> /\ UNCHANGED <<assetVars, ledgerVars, unitVars>>

AuthExternalCall == \E c \in Address : ExternalCall(c) /\ AuthFrame
AuthAcquireGuard == AcquireGuard /\ AuthFrame
AuthGuardPush == \E a \in Address : GuardPush(a) /\ AuthFrame
AuthGuardPop == GuardPop /\ AuthFrame
AuthGuardOverwrite ==
    \E i \in 1..MaxAuthLen, a \in Address : GuardOverwrite(i, a) /\ AuthFrame
AuthDropGuard == DropGuard /\ AuthFrame
AuthCheck == \E ps \in SUBSET Address : Check(ps)

NextAuth ==
    \/ AuthExternalCall
    \/ AuthAcquireGuard
    \/ AuthGuardPush
    \/ AuthGuardPop
    \/ AuthGuardOverwrite
    \/ AuthDropGuard
    \/ AuthCheck

SpecAuth == Init /\ [][NextAuth]_vars

\* ------------------------------------------------------------------------
\* SpecGuard: guard scopes, remembering what each guard saw at acquisition
\* ------------------------------------------------------------------------
\* marks every live guard whose recorded prefix is touched at index i
TouchBelow(acq, gs, i) ==
    [k \in 1..Len(acq) |-> IF i <= gs[k].len THEN [acq[k] EXCEPT !.touched = TRUE]
                           ELSE acq[k]]

GuardExternalCall ==
    /\ UNCHANGED <<assetVars, ledgerVars, unitVars>>
    /\ \E c \in Address : ExternalCall(c)
    /\ lastDrop' = NoDrop
    /\ UNCHANGED <<lastCheck, acquired>>

GuardAcquire ==
    /\ UNCHANGED <<assetVars, ledgerVars, unitVars>>
    /\ AcquireGuard
    /\ acquired' = Append(acquired, [atAcquire |-> authorizers, touched |-> FALSE])
    /\ lastDrop' = NoDrop
    /\ UNCHANGED lastCheck

GuardAppend ==
    /\ UNCHANGED <<assetVars, ledgerVars, unitVars>>
    /\ \E a \in Address : GuardPush(a)
    /\ lastDrop' = NoDrop
    /\ UNCHANGED <<lastCheck, acquired>>

GuardRemove ==
    /\ UNCHANGED <<assetVars, ledgerVars, unitVars>>
    /\ GuardPop
    /\ acquired' = TouchBelow(acquired, guards, Len(authorizers))
    /\ lastDrop' = NoDrop
    /\ UNCHANGED lastCheck

GuardReplace ==
    /\ UNCHANGED <<assetVars, ledgerVars, unitVars>>
    /\ \E i \in 1..MaxAuthLen, a \in Address :
          /\ GuardOverwrite(i, a)
          /\ acquired' = TouchBelow(acquired, guards, i)
    /\ lastDrop' = NoDrop
    /\ UNCHANGED lastCheck

\* the scope of the innermost guard ends on exit path e
GuardRelease ==
    /\ UNCHANGED <<assetVars, ledgerVars, unitVars>>
    /\ DropGuard
    /\ \E e \in ExitPaths :
         lastDrop' = [len |-> guards[Len(guards)].len,
                      atAcquire |-> acquired[Len(acquired)].atAcquire,
                      before |-> authorizers,
                      after |-> authorizers',
                      exit |-> e,
                      touched |-> acquired[Len(acquired)].touched,
                      depth |-> Len(guards)]
    /\ acquired' = SubSeq(acquired, 1, Len(acquired) - 1)
    /\ UNCHANGED lastCheck

NextGuard ==
    \/ GuardExternalCall
    \/ GuardAcquire
    \/ GuardAppend
    \/ GuardRemove
    \/ GuardReplace
    \/ GuardRelease

SpecGuard == Init /\ [][NextGuard]_vars

\* ------------------------------------------------------------------------
\* SpecAsset: external calls that issue, withdraw, deposit and drop a
\* fungible asset
\* ------------------------------------------------------------------------
AssetFrame == UNCHANGED <<authorizers, guards, lastCheck, acquired, lastDrop, ledgerVars, unitVars>>

AssetBeginCall == \E c \in AssetCallers : BeginCall(c) /\ AssetFrame
AssetIssueTo == \E to \in Holders, amount \in 1..MaxSupply : IssueTo(to, amount) /\ AssetFrame
AssetIssueNotFungibleTo ==
    \E to \in Holders, uri \in Uris : IssueNotFungibleTo(to, uri) /\ AssetFrame
AssetWithdrawFungible ==
    \E fn \in {"caller", "self"}, amount \in 0..MaxSupply :
        Withdraw(fn, "ft", amount) /\ AssetFrame
AssetWithdrawNotFungible ==
    \E fn \in {"caller", "self"}, id \in 1..MaxNft :
        Withdraw(fn, "nft", id) /\ AssetFrame
AssetDeposit ==
    \E h \in handles, to \in Holders, answer \in BOOLEAN, hostOk \in BOOLEAN :
        Deposit(h, to, answer, hostOk) /\ AssetFrame
AssetDropHandle == \E h \in handles : DropHandle(h) /\ AssetFrame
AssetEndCall == EndCall /\ AssetFrame

NextAsset ==
    \/ AssetBeginCall
    \/ AssetIssueTo
    \/ AssetWithdrawFungible
    \/ AssetDeposit
    \/ AssetDropHandle
    \/ AssetEndCall

SpecAsset == Init /\ [][NextAsset]_vars

\* ------------------------------------------------------------------------
\* SpecNft: the same calls on a contract whose asset is non-fungible
\* ------------------------------------------------------------------------
NextNft ==
    \/ AssetBeginCall
    \/ AssetIssueNotFungibleTo
    \/ AssetWithdrawNotFungible
    \/ AssetDeposit
    \/ AssetDropHandle
    \/ AssetEndCall

SpecNft == Init /\ [][NextNft]_vars

\* ------------------------------------------------------------------------
\* SpecLedger: external calls into the shop collaboration
\* ------------------------------------------------------------------------
LedgerFrame ==
    UNCHANGED <<authorizers, guards, lastCheck, acquired, lastDrop, assetVars, unitVars>>

\* the states external callers pass to the creation entry points
NewIous ==
    {[issuer |-> "owner", owner |-> "user", amount |-> 1, currency |-> "USD"],
     [issuer |-> "owner", owner |-> "user", amount |-> 2, currency |-> "USD"],
     [issuer |-> "owner", owner |-> "user", amount |-> 1, currency |-> "EUR"],
     [issuer |-> "owner", owner |-> "vendor", amount |-> 1, currency |-> "USD"]}
NewItems ==
    {[producer |-> "vendor", owner |-> "vendor", label |-> "item", quantity |-> 1,
      unit |-> "pc", observers |-> <<>>]}
NewShops ==
    {[owner |-> "owner", vendors |-> <<>>, users |-> <<>>, offer_ids |-> <<>>]}

\* the ids callers pass: every id issued so far and one never issued
Ids(tag) == 1..(Len(store[tag]) + 1)

LedgerCreateIou == \E c \in Address, s \in NewIous : CallCreate(c, "Iou", s) /\ LedgerFrame
LedgerCreateItem == \E c \in Address, s \in NewItems : CallCreate(c, "Item", s) /\ LedgerFrame
LedgerCreateShop == \E c \in Address, s \in NewShops : CallCreate(c, "Shop", s) /\ LedgerFrame
LedgerTransferIou ==
    \E c \in Address, id \in Ids("Iou"), o \in {"vendor"} :
        CallTransferIou(c, id, o) /\ LedgerFrame
LedgerInviteVendor ==
    \E c \in Address, id \in Ids("Shop") : CallInviteVendor(c, id, "vendor") /\ LedgerFrame
LedgerInviteUser ==
    \E c \in Address, id \in Ids("Shop") : CallInviteUser(c, id, "user") /\ LedgerFrame
LedgerAcceptVendorInvite ==
    \E c \in Address, id \in Ids("VendorInvite") : CallAcceptVendorInvite(c, id) /\ LedgerFrame
LedgerAcceptUserInvite ==
    \E c \in Address, id \in Ids("UserInvite") : CallAcceptUserInvite(c, id) /\ LedgerFrame
LedgerOfferItem ==
    \E c \in Address, id \in Ids("VendorRelationship"), shop_id \in Ids("Shop"),
       item_id \in Ids("Item") :
        CallOfferItem(c, id, shop_id, item_id, 1, "USD") /\ LedgerFrame
LedgerBuyItem ==
    \E c \in Address, id \in Ids("UserRelationship"), shop_id \in Ids("Shop"),
       offer_id \in Ids("Offer"), iou_id \in Ids("Iou") :
        CallBuyItem(c, id, shop_id, offer_id, iou_id) /\ LedgerFrame
LedgerCommit == Commit /\ LedgerFrame
LedgerRevert == Revert /\ LedgerFrame

NextLedger ==
    \/ LedgerCreateIou
    \/ LedgerCreateItem
    \/ LedgerCreateShop
    \/ LedgerTransferIou
    \/ LedgerInviteVendor
    \/ LedgerInviteUser
    \/ LedgerAcceptVendorInvite
    \/ LedgerAcceptUserInvite
    \/ LedgerOfferItem
    \/ LedgerBuyItem
    \/ LedgerCommit
    \/ LedgerRevert

SpecLedger == Init /\ [][NextLedger]_vars

\* ------------------------------------------------------------------------
\* Claims about the authorization check (SpecAuth)
\* ------------------------------------------------------------------------
\* C3: with an empty authorizers list, __liquid_authorization_check(parties)
\* returns true if and only if parties is a subset of {caller}.
C3_EmptyListChecksCaller ==
    (lastCheck.n = 1 /\ lastCheck.auth = <<>>)
        => (lastCheck.result <=> lastCheck.parties \subseteq {lastCheck.caller})

\* a check of the one-element set {caller} with an empty list was made and passed
C3_Witness ==
    /\ lastCheck.n = 1
    /\ lastCheck.auth = <<>>
    /\ lastCheck.parties = {lastCheck.caller}
    /\ lastCheck.result

\* C4: with a non-empty authorizers list, __liquid_authorization_check(parties)
\* returns true if and only if parties is a subset of the entries of the list.
C4_NonEmptyListChecksWhitelist ==
    (lastCheck.n = 1 /\ lastCheck.auth # <<>>)
        => (lastCheck.result <=> lastCheck.parties \subseteq Range(lastCheck.auth))

\* a check of two parties, one of them not the caller, passed against the list
C4_Witness ==
    /\ lastCheck.n = 1
    /\ lastCheck.auth # <<>>
    /\ Cardinality(lastCheck.parties) = 2
    /\ lastCheck.result

\* ------------------------------------------------------------------------
\* Claims about the guard scopes (SpecGuard)
\* ------------------------------------------------------------------------
\* C5 (as stated): after a guard acquired at length n is released, on any exit
\* path, the list has length n again and holds exactly the entries it held at
\* acquisition.
C5_ReleaseRestoresAcquisition ==
    lastDrop.exit # "none"
        => (Len(lastDrop.after) = lastDrop.len /\ lastDrop.after = lastDrop.atAcquire)

\* C5 (amended): a release, on any exit path, truncates the list to at most
\* the recorded length n; when no holder removed or overwrote an entry below
\* index n while the guard was live, the list has length n again and holds
\* exactly the entries it held at acquisition (nested guards, released in LIFO
\* order, each restore the state at their own acquisition).
C5_ReleaseRestoresUntouchedAcquisition ==
    lastDrop.exit # "none"
        => /\ Len(lastDrop.after) <= lastDrop.len
           /\ ~lastDrop.touched
                => (Len(lastDrop.after) = lastDrop.len
                    /\ lastDrop.after = lastDrop.atAcquire)

\* an inner guard (depth 2), acquired over a non-empty list, is released by
\* error propagation after its holder appended an entry
C5_Witness ==
    /\ lastDrop.exit = "error"
    /\ lastDrop.depth = 2
    /\ lastDrop.len > 0
    /\ Len(lastDrop.before) > lastDrop.len
    /\ ~lastDrop.touched
    /\ lastDrop.after = lastDrop.atAcquire

\* ------------------------------------------------------------------------
\* Claims about asset handles (SpecAsset, SpecNft)
\* ------------------------------------------------------------------------
\* C7: asset linearity. In a call that commits no handle reached the end of
\* its scope with stored == false (and none is left alive); a handle dropped
\* with stored == false aborts the call.
C7_AssetLinearity ==
    /\ txState = "committed" => (handles = {} /\ txLog.unstoredDrops = 0)
    /\ txLog.unstoredDrops > 0 => txState = "aborted"

\* a withdrawn handle was dropped without any deposit, and the call aborted
C7_Witness ==
    /\ txState = "aborted"
    /\ txLog.made > 0
    /\ txLog.unstoredDrops = 1
    /\ \A i \in 1..MaxHandles : txLog.transfers[i] = 0

\* C8: a handle produced by one withdrawal is consumed by exactly one
\* deposit: no handle reaches the host transfer twice, and in a call that
\* commits every withdrawn handle reached it exactly once.
C8_OneDepositPerHandle ==
    /\ \A i \in 1..MaxHandles : txLog.transfers[i] <= 1
    /\ txState = "committed" => \A i \in 1..txLog.made : txLog.transfers[i] = 1

\* a call that withdrew two handles and deposited each of them committed
C8_Witness ==
    /\ txState = "committed"
    /\ txLog.made = 2
    /\ \A i \in 1..2 : txLog.transfers[i] = 1

\* C9: conservation. Over a call that makes no issue_to call, whatever it
\* withdraws and deposits and whether it commits or aborts, the sum of the
\* balances of all holders stays what it was when the call began.
C9_Conservation ==
    ~txLog.issued => TotalBalance(balance) = TotalBalance(hostCommitted.bal)

\* a call without issue_to committed after a deposit that moved value
C9_Witness ==
    /\ txState = "committed"
    /\ ~txLog.issued
    /\ balance # hostCommitted.bal

\* what C10 calls an insufficient source: a balance below the amount
\* (fungible), a token the source does not own (non-fungible)
Insufficient(w) ==
    IF w.kind = "ft" THEN w.balBefore[w.source] < w.arg
    ELSE ~Owns(w.nftBefore, w.source, w.arg)

\* C10: withdraw_from_caller / withdraw_from_self return None, without
\* aborting, constructing a handle or changing a balance, exactly when the
\* source balance is below the amount (fungible) or the source does not own
\* the id (non-fungible); otherwise they return a handle carrying the amount
\* or id with stored == false and the matching from_self flag.
C10_WithdrawNoneIffInsufficient ==
    lastWithdraw.fn # "none" =>
        LET w == lastWithdraw IN
        /\ txState = "running"
        /\ balance = w.balBefore /\ nft = w.nftBefore
        /\ ~w.result.some <=> Insufficient(w)
        /\ ~w.result.some => handles = w.handlesBefore
        /\ w.result.some =>
             /\ w.result.handle \in handles
             /\ w.result.handle \notin w.handlesBefore
             /\ w.result.handle.value = w.arg
             /\ w.result.handle.stored = FALSE
             /\ w.result.handle.from_self = (w.fn = "self")

\* ------------------------------------------------------------------------
\* Claims about the contract lifecycle (SpecLedger)
\* ------------------------------------------------------------------------
LogEntries == {lastCall.log[i] : i \in 1..Len(lastCall.log)}

\* every contract id the tables can hold
AllIds == UNION {{<<tag, id>> : id \in 1..Cap(tag)} : tag \in Tags}

\* C1: archival monotonicity. Once the archived flag of a contract is true,
\* no create / fetch / exercise / archive operation of the same or a later
\* call makes it false again (a flag the host has committed stays true in the
\* committed and in the working tables; a flag set by the running call stays
\* true through every step but the revert of that very call), and every
\* exercise that addresses an archived contract fails and aborts its call.
C1_ArchivalMonotonicity ==
    /\ [][\A x \in AllIds :
            /\ Archived(storeCommitted, x[1], x[2])
                 => (Archived(storeCommitted', x[1], x[2]) /\ Archived(store', x[1], x[2]))
            /\ (Archived(store, x[1], x[2]) /\ callState # "panicked")
                 => Archived(store', x[1], x[2])]_vars
    /\ [](\A e \in LogEntries :
            (e.op = "exercise" /\ e.archived) => (~e.passed /\ callState = "panicked"))

\* a right was exercised on a contract an earlier, committed call had
\* archived, and the call failed
C1_Witness ==
    /\ callState = "panicked"
    /\ lastCall.err = "NotFound"
    /\ \E e \in LogEntries :
         /\ e.op = "exercise"
         /\ e.archived
         /\ Archived(storeCommitted, e.tag, e.id)

\* the authorized set of a calling context: the caller alone while no guard
\* is live, the entries of the authorizers list otherwise
EffectiveAuthorized(e) ==
    IF e.depth = 0 THEN {lastCall.caller} ELSE Range(e.au)

\* C2: authorization soundness. An exercise whose choice requires the signer
\* set S passes its check only if the authorized set of the calling context
\* (the single caller at guard depth 0, the guard whitelist at depth 1 and 2)
\* is a superset of S, and a call that ends successfully holds no exercise
\* that failed the check.
C2_AuthorizationSoundness ==
    \A e \in LogEntries :
        e.op = "exercise" =>
            /\ e.depth \in 0..2
            /\ e.depth = 0 <=> e.au = <<>>
            /\ e.passed => e.required \subseteq EffectiveAuthorized(e)
            /\ callState = "finished" => (e.passed /\ e.required \subseteq EffectiveAuthorized(e))

\* one call holds passed exercises at depths 0, 1 and 2, each with a
\* non-empty signer set: a purchase that settled the offer and moved the item
C2_Witness ==
    /\ callState = "finished"
    /\ \A d \in 0..2 : \E e \in LogEntries :
         e.op = "exercise" /\ e.depth = d /\ e.passed /\ e.required # {}

\* C6: atomicity. If any assertion of a choice chain fails, the call aborts
\* and after it every contract has the stored state and the archived flag it
\* had before the call and no contract created by the chain exists;
\* otherwise every archival and creation of the chain is committed together.
C6_Atomicity ==
    /\ []((\E e \in LogEntries : ~e.passed) => callState = "panicked")
    /\ [](callState \in {"aborted", "committed"} => store = storeCommitted)
    /\ [][/\ callState = "panicked"
             => (store' = storeCommitted /\ storeCommitted' = storeCommitted)
          /\ callState = "finished"
             => (storeCommitted' = store /\ store' = store)
          /\ callState \notin {"panicked", "finished"}
             => storeCommitted' = storeCommitted]_vars

\* a call that had created and archived contracts failed an assertion and
\* was rolled back
C6_Witness ==
    /\ callState = "aborted"
    /\ lastCall.undone
    /\ store = storeCommitted

Versioned == {"Shop", "Item", "Iou"}

\* C12: a contract is never updated in place. Whenever a right signs a new
\* version of a Shop, Item or Iou, the version it was built from (the contract
\* of that template the right exercised or fetched before) is archived in the
\* same call, so when the call commits the old id is Archived and the new id
\* is Active.
C12_NeverUpdatedInPlace ==
    (callState = "finished" /\ lastCall.entry # "create") =>
        \A i \in 1..Len(lastCall.log) :
            LET new == lastCall.log[i] IN
            (new.op = "sign" /\ new.tag \in Versioned) =>
                /\ Active(store, new.tag, new.id)
                /\ \A j \in 1..(i - 1) :
                     LET old == lastCall.log[j] IN
                     (old.op \in {"exercise", "fetch"} /\ old.tag = new.tag)
                         => Archived(store, old.tag, old.id)

\* the templates whose rights take self by value (shop/src/lib.rs): every
\* right of the shop but offer_item and buy_item
ConsumingTags == Tags \ {"VendorRelationship", "UserRelationship"}

\* C13: when an exercise completes successfully, the exercised contract is
\* Archived if the right is consuming (takes self by value) and is still
\* Active with the state it had before if the right is non-consuming (&self).
C13_ConsumingArchivesSelf ==
    callState = "finished" =>
        \A e \in LogEntries :
            e.op = "exercise" =>
                IF e.tag \in ConsumingTags
                THEN Archived(store, e.tag, e.id)
                ELSE /\ Active(store, e.tag, e.id)
                     /\ Active(storeCommitted, e.tag, e.id)
                     /\ store[e.tag][e.id] = storeCommitted[e.tag][e.id]

\* a purchase completed: buy_item (non-consuming) on the UserRelationship,
\* settle, transfer_item and transfer_iou (consuming) on Offer, Item and Iou
C13_Witness ==
    /\ callState = "finished"
    /\ lastCall.entry = "buy_item"
    /\ {e.tag : e \in {x \in LogEntries : x.op = "exercise"}}
         = {"UserRelationship", "Offer", "Item", "Iou"}

\* a fetch or exercise that addressed a contract id never created or archived
Missing(e) == e.op \in {"fetch", "exercise"} /\ (~e.existed \/ e.archived)

\* C14: fetch or exercise on a contract id that was never created, or whose
\* archived flag is set, is fatal: it fails, the call aborts, and the abort
\* leaves no contract created or archived by the call.
C14_MissingContractIsFatal ==
    /\ [](\A e \in LogEntries :
            Missing(e) => (~e.passed /\ callState = "panicked" /\ lastCall.err = "NotFound"))
    /\ [][(\E e \in LogEntries : Missing(e))
            => /\ callState' = "aborted"
               /\ store' = storeCommitted
               /\ storeCommitted' = storeCommitted]_vars

\* buy_item fetched a Shop id that was never created
C14_Witness ==
    /\ callState = "panicked"
    /\ lastCall.entry = "buy_item"
    /\ \E e \in LogEntries : e.op = "fetch" /\ e.tag = "Shop" /\ ~e.existed

\* the authorizers lists a fetch is tried under: one list per set of parties
\* (the empty list is the case of no live guard)
FetchContexts == {SetToSeq(S) : S \in SUBSET Address}

\* C15: fetch(contract_id) on an Active contract is read-only. It performs no
\* authorization check (it succeeds under any caller and any authorizers
\* list, whoever the signers of the contract are), it does not archive the
\* contract, and it leaves every stored state and archived flag, and the
\* authorizers list, unchanged. Every fetch of a call passed if and only if
\* the contract was Active.
C15_FetchIsReadOnly ==
    /\ \A x \in AllIds : \A au \in FetchContexts :
         Active(store, x[1], x[2]) =>
             LET ctx == [NewContext(store) EXCEPT !.au = au, !.depth = Len(au)]
                 f == Fetch(ctx, x[1], x[2])
             IN /\ f.ok
                /\ f.st = store
                /\ f.au = au
                /\ f.depth = ctx.depth
                /\ Active(f.st, x[1], x[2])
    /\ \A e \in LogEntries :
         e.op = "fetch" => /\ e.passed <=> (e.existed /\ ~e.archived)
                           /\ e.required = {}

\* buy_item, called by the user, fetched an Offer whose signer the vendor was
\* not in the authorizers list, and the call went on to its end
C15_Witness ==
    /\ callState = "finished"
    /\ lastCall.entry = "buy_item"
    /\ \E e \in LogEntries :
         /\ e.op = "fetch" /\ e.tag = "Offer" /\ e.passed
         /\ ~(Signers("Offer", StateOf(store, "Offer", e.id)) \subseteq Range(e.au))

\* C16: every contract created during an exercise chain is authorized by
\* construction. A sign! passes exactly when every signer of the new state is
\* in the authorized set of the context (the caller when no guard is live,
\* the authorizers list otherwise); then the contract is stored with those
\* signers. A sign! whose signers are not all authorized fails Unauthorized
\* and the call aborts.
C16_CreationIsAuthorized ==
    \A e \in LogEntries :
        e.op = "sign" =>
            /\ e.required # {}
            /\ e.passed <=> e.required \subseteq EffectiveAuthorized(e)
            /\ e.passed => /\ Exists(store, e.tag, e.id)
                           /\ Signers(e.tag, StateOf(store, e.tag, e.id)) = e.required
            /\ ~e.passed => /\ callState = "panicked"
                            /\ lastCall.err = "Unauthorized"
                            /\ e.id = Len(store[e.tag]) + 1

\* accept_vendor_invite, called by the vendor alone, signed a
\* VendorRelationship whose signers are the owner and the vendor
C16_Witness ==
    /\ callState = "finished"
    /\ \E e \in LogEntries :
         /\ e.op = "sign" /\ e.passed /\ e.depth >= 1
         /\ Cardinality(e.required) = 2
         /\ e.required # {lastCall.caller}

\* ------------------------------------------------------------------------
\* Claims about the tables (SpecLedger)
\* ------------------------------------------------------------------------
\* the passed sign! entries of template tag among the first n entries of the log
SignedBefore(tag, n) ==
    {j \in 1..n : /\ lastCall.log[j].op = "sign"
                  /\ lastCall.log[j].tag = tag
                  /\ lastCall.log[j].passed}

\* C17: create allocates, per template tag, a fresh identifier: one above
\* every identifier issued for that tag before, never one issued before; the
\* counters of different tags are independent; the new contract is stored
\* Active. Identifiers the host has committed keep their contract for good.
C17_FreshIdentifiers ==
    /\ [](\A tag \in Tags :
            LET new == Put(store, tag, DefaultState(tag)) IN
            /\ Len(new[tag]) = Len(store[tag]) + 1
            /\ Active(new, tag, Len(new[tag]))
            /\ \A i \in 1..Len(store[tag]) : new[tag][i] = store[tag][i]
            /\ \A t \in Tags \ {tag} : new[t] = store[t])
    /\ [](\A i \in 1..Len(lastCall.log) :
            LET e == lastCall.log[i] IN
            (e.op = "sign" /\ e.passed) =>
                /\ ~e.existed
                /\ e.id = Len(storeCommitted[e.tag])
                            + Cardinality(SignedBefore(e.tag, i - 1)) + 1
                /\ Exists(store, e.tag, e.id))
    /\ [][\A tag \in Tags :
            /\ Len(storeCommitted'[tag]) >= Len(storeCommitted[tag])
            /\ \A i \in 1..Len(storeCommitted[tag]) :
                 storeCommitted'[tag][i].state = storeCommitted[tag][i].state]_vars

\* one call created contracts of two templates whose counters stood at
\* different values
C17_Witness ==
    /\ callState = "finished"
    /\ \E e1, e2 \in LogEntries :
         /\ e1.op = "sign" /\ e2.op = "sign"
         /\ e1.tag # e2.tag
         /\ e1.id > 1 /\ e2.id > e1.id

\* C18: archive(template_tag, id) sets the archived flag of that entry only.
\* The stored state of the archived contract, and the state and the flag of
\* every other entry, are unchanged; in a call, the only flags that differ
\* from the committed ones are those of the contracts the call exercised, and
\* no stored state differs.
C18_ArchiveSetsOneFlag ==
    /\ \A x \in AllIds :
         Exists(store, x[1], x[2]) =>
             LET done == SetArchived(store, x[1], x[2]) IN
             /\ Archived(done, x[1], x[2])
             /\ done[x[1]][x[2]].state = store[x[1]][x[2]].state
             /\ \A y \in AllIds :
                  (y # x /\ Exists(store, y[1], y[2]))
                      => done[y[1]][y[2]] = store[y[1]][y[2]]
             /\ \A t \in Tags : Len(done[t]) = Len(store[t])
    /\ \A x \in AllIds :
         Exists(storeCommitted, x[1], x[2]) =>
             /\ Exists(store, x[1], x[2])
             /\ store[x[1]][x[2]].state = storeCommitted[x[1]][x[2]].state
             /\ store[x[1]][x[2]].archived # storeCommitted[x[1]][x[2]].archived
                  => \E e \in LogEntries :
                       /\ e.op = "exercise" /\ e.passed
                       /\ e.tag = x[1] /\ e.id = x[2]

\* a purchase archived the Offer, the Item and the Iou it exercised and left
\* their states and the other contracts as they were
C18_Witness ==
    /\ callState = "finished"
    /\ lastCall.entry = "buy_item"
    /\ Cardinality({x \in AllIds : /\ Active(storeCommitted, x[1], x[2])
                                   /\ Archived(store, x[1], x[2])}) = 3
    /\ \E x \in AllIds : Active(storeCommitted, x[1], x[2]) /\ Active(store, x[1], x[2])

\* ------------------------------------------------------------------------
\* Claims about buy_item (SpecLedger)
\* ------------------------------------------------------------------------
\* the running or last call is a buy_item that got as far as its three
\* fetches: entry 1 of its trace is the exercise of the UserRelationship,
\* entries 2 to 4 are shop_id.fetch(), offer_id.fetch() and iou_id.fetch()
BuyReached == lastCall.entry = "buy_item" /\ Len(lastCall.log) >= 4
BuyShop == StateOf(storeCommitted, "Shop", lastCall.log[2].id)
BuyOffer == StateOf(storeCommitted, "Offer", lastCall.log[3].id)
BuyIou == StateOf(storeCommitted, "Iou", lastCall.log[4].id)

\* the ids the call signed for template tag, in the order of signing
RECURSIVE SignedIds(_, _)
SignedIds(log, tag) ==
    IF log = <<>> THEN <<>>
    ELSE (IF Head(log).op = "sign" /\ Head(log).tag = tag /\ Head(log).passed
          THEN <<Head(log).id>> ELSE <<>>) \o SignedIds(Tail(log), tag)

\* the user exercised buy_item on their relationship with an Active shop that
\* lists the Active offer and an Active Iou of the offer's price and currency
PurchaseInputs ==
    /\ BuyReached
    /\ \A i \in 1..4 : lastCall.log[i].passed
    /\ Contains(BuyShop.offer_ids, lastCall.log[3].id)
    /\ BuyOffer.price = BuyIou.amount
    /\ BuyOffer.currency = BuyIou.currency

\* the call ran to its end and returned a Shop without the offer, the Item
\* owned by the user and the Iou owned by the vendor of the offer
PurchaseDone ==
    /\ callState = "finished"
    /\ LET shops == SignedIds(lastCall.log, "Shop")
           items == SignedIds(lastCall.log, "Item")
           ious == SignedIds(lastCall.log, "Iou")
       IN /\ Len(shops) = 1 /\ Len(items) = 1 /\ Len(ious) = 1
          /\ LET new_shop == StateOf(store, "Shop", shops[1])
                 new_item == StateOf(store, "Item", items[1])
                 new_iou == StateOf(store, "Iou", ious[1])
             IN /\ Active(store, "Shop", shops[1])
                /\ Active(store, "Item", items[1])
                /\ Active(store, "Iou", ious[1])
                /\ Len(new_shop.offer_ids) = Len(BuyShop.offer_ids) - 1
                /\ Range(new_shop.offer_ids)
                     = Range(BuyShop.offer_ids) \ {lastCall.log[3].id}
                /\ new_shop = [BuyShop EXCEPT !.offer_ids = new_shop.offer_ids]
                /\ new_item.owner = lastCall.caller
                /\ new_iou.owner = BuyOffer.vendor
                /\ new_iou.amount = BuyIou.amount

PurchaseSettles ==
    /\ BuyIou.owner = lastCall.caller
    /\ Active(storeCommitted, "Item", BuyOffer.item_id)

PurchaseMismatch ==
    /\ BuyReached
    /\ \A i \in 1..4 : lastCall.log[i].passed
    /\ (BuyOffer.price # BuyIou.amount \/ BuyOffer.currency # BuyIou.currency)

\* C20: buy_item aborts whenever the Iou's amount differs from the offer's
\* price or the Iou's currency differs from the offer's currency, and after
\* the abort the shop, offer, item and Iou contracts (every stored contract)
\* have exactly the state and archived flags they had before.
C20_MismatchAborts ==
    /\ [](PurchaseMismatch => /\ callState = "panicked"
                              /\ lastCall.err = "InvariantViolation"
                              /\ SignedIds(lastCall.log, "Shop") = <<>>)
    /\ [][PurchaseMismatch => /\ callState' = "aborted"
                              /\ store' = storeCommitted
                              /\ storeCommitted' = storeCommitted]_vars

\* the user tried to buy an offer of price 1 with an Iou of amount 2
C20_Witness ==
    /\ PurchaseMismatch
    /\ callState = "panicked"
    /\ BuyOffer.price = 1 /\ BuyIou.amount = 2
    /\ BuyOffer.currency = BuyIou.currency

\* ------------------------------------------------------------------------
\* Claims about rejected exercises (SpecLedger)
\* ------------------------------------------------------------------------
\* an exercise of an Active contract, made with no guard live, whose required
\* party is not the caller
ForeignExercise(e) ==
    /\ e.op = "exercise" /\ e.depth = 0
    /\ e.existed /\ ~e.archived
    /\ ~(e.required \subseteq {lastCall.caller})

\* C21: when an address that is not the required party exercises a
\* party-only right with an empty authorizers list, the exercise fails
\* Unauthorized, the call aborts, and no contract has been created or archived.
C21_ForeignExerciseRejected ==
    \A e \in LogEntries :
        ForeignExercise(e) =>
            /\ ~e.passed
            /\ callState = "panicked"
            /\ lastCall.err = "Unauthorized"
            /\ Len(lastCall.log) = 1
            /\ store = storeCommitted

\* an address other than the vendor called offer_item on the Active
\* VendorRelationship
C21_Witness ==
    /\ lastCall.entry = "offer_item"
    /\ lastCall.caller # "vendor"
    /\ \E e \in LogEntries : ForeignExercise(e) /\ e.tag = "VendorRelationship"
    /\ callState = "panicked"

\* ------------------------------------------------------------------------
\* SpecOfferList: buy_item's removal of the bought offer, applied to every
\* offer list of a Shop (a Shop is signed with any list its owner passes)
\* ------------------------------------------------------------------------
MaxListLen == 3
MaxOfferId == 3

OfferLists == UNION {[1..n -> 1..MaxOfferId] : n \in 0..MaxListLen}

InitOfferList ==
    /\ caller = "user"
    /\ authorizers = <<>>
    /\ guards = <<>>
    /\ lastCheck = NoCheck
    /\ acquired = <<>>
    /\ lastDrop = NoDrop
    /\ balance = [a \in Holders |-> 0]
    /\ nft = [i \in 1..MaxNft |-> [owner |-> Nobody, uri |-> ""]]
    /\ hostCommitted = [bal |-> balance, nft |-> nft]
    /\ handles = {}
    /\ txState = "idle"
    /\ lastWithdraw = NoWithdraw
    /\ lastDeposit = NoDeposit
    /\ txLog = NewLog
    /\ store = EmptyStore
    /\ storeCommitted = EmptyStore
    /\ callState = "idle"
    /\ lastCall = NoCall
    /\ \E l \in OfferLists, id \in 1..MaxOfferId, b \in BOOLEAN :
           removal = [NoRemoval EXCEPT !.offer_ids = l, !.offer_id = id, !.checked = b]
    /\ chain = NoChain
    /\ inherit = NoInherit
    /\ contractDefinitionCount = 0
    /\ interfacesInfos = <<>>
    /\ expansions = <<>>
    /\ codec = NoCodec
    /\ kv = NoKv
    /\ hostStorage = NoStorage
    /\ arith = NoArith
    /\ emitted = NoEmit

OfferListRemove ==
    /\ ~removal.done
    /\ LET r == RemoveOffer(removal.offer_ids, removal.offer_id, removal.checked)
       IN removal' = [removal EXCEPT !.done = TRUE, !.ok = r.ok,
                                     !.new_offer_ids = r.new_offer_ids]
    /\ UNCHANGED <<authVars, assetVars, ledgerVars, chain, inherit, macroVars, codec, kv, hostStorage, arith, emitted>>

NextOfferList == OfferListRemove

SpecOfferList == InitOfferList /\ [][NextOfferList]_vars

\* how often id occurs in the list v
Occurrences(v, id) == Cardinality({i \in 1..Len(v) : v[i] = id})

\* C22: for every offer list of the shop, the empty one and those that hold
\* the offer id more than once included, buy_item's removal step lets the call
\* go on only if the offer id occurs exactly once, and then the new list is
\* the old one without that id, shorter by exactly one; in every other case
\* the step aborts the call.
C22_RemovesExactlyOneOrAborts ==
    removal.done =>
        /\ removal.ok <=> Occurrences(removal.offer_ids, removal.offer_id) = 1
        /\ removal.ok =>
              /\ Len(removal.new_offer_ids) = Len(removal.offer_ids) - 1
              /\ Occurrences(removal.new_offer_ids, removal.offer_id) = 0
              /\ \A id \in 1..MaxOfferId :
                    id # removal.offer_id =>
                        Occurrences(removal.new_offer_ids, id)
                            = Occurrences(removal.offer_ids, id)

\* the offer id occurs twice in the shop's list and the step aborted
C22_Witness ==
    /\ removal.done
    /\ Occurrences(removal.offer_ids, removal.offer_id) = 2
    /\ ~removal.ok

\* ------------------------------------------------------------------------
\* SpecOffer: offer_item applied to every Shop the vendor can pass. The
\* vendor holds a VendorRelationship signed with the owner of the shop that
\* invited them; the Shop passed as shop_id is any stored Shop, for instance
\* one the vendor created for themselves.
\* ------------------------------------------------------------------------
RootShop(o, us) == [owner |-> o, vendors |-> <<>>, users |-> us, offer_ids |-> <<>>]

\* the tables after: owner creates a Shop, invites the vendor, the vendor
\* accepts and creates an Item; a further Shop of owner o with users us was
\* created by o
OfferStores ==
    {LET s1 == Put(EmptyStore, "Shop", RootShop("owner", <<>>))
         s2 == Put(Put(SetArchived(s1, "Shop", 1), "Shop",
                       [RootShop("owner", <<>>) EXCEPT !.vendors = <<"vendor">>]),
                   "VendorInvite", [owner |-> "owner", vendor |-> "vendor"])
         s3 == Put(SetArchived(s2, "VendorInvite", 1), "VendorRelationship",
                   [owner |-> "owner", vendor |-> "vendor"])
         s4 == Put(s3, "Item", item)
     IN Put(s4, "Shop", RootShop(o, us))
     : o \in {"owner", "vendor"}, us \in {<<>>, <<"user">>}, item \in NewItems}

InitOffer ==
    /\ caller \in Address
    /\ authorizers = <<>>
    /\ guards = <<>>
    /\ lastCheck = NoCheck
    /\ acquired = <<>>
    /\ lastDrop = NoDrop
    /\ balance = [a \in Holders |-> 0]
    /\ nft = [i \in 1..MaxNft |-> [owner |-> Nobody, uri |-> ""]]
    /\ hostCommitted = [bal |-> balance, nft |-> nft]
    /\ handles = {}
    /\ txState = "idle"
    /\ lastWithdraw = NoWithdraw
    /\ lastDeposit = NoDeposit
    /\ txLog = NewLog
    /\ store \in OfferStores
    /\ storeCommitted = store
    /\ callState = "idle"
    /\ lastCall = NoCall
    /\ removal = NoRemoval
    /\ chain = NoChain
    /\ inherit = NoInherit
    /\ contractDefinitionCount = 0
    /\ interfacesInfos = <<>>
    /\ expansions = <<>>
    /\ codec = NoCodec
    /\ kv = NoKv
    /\ hostStorage = NoStorage
    /\ arith = NoArith
    /\ emitted = NoEmit

NextOffer ==
    \/ LedgerOfferItem
    \/ LedgerCommit
    \/ LedgerRevert

SpecOffer == InitOffer /\ [][NextOffer]_vars

\* offer_item ran to its end: its first three steps are the exercise of the
\* relationship, the fetch of the Shop and the exercise of the Item (disclose)
OfferReached ==
    /\ callState = "finished"
    /\ lastCall.entry = "offer_item"
OfferRelationship == StateOf(storeCommitted, "VendorRelationship", lastCall.log[1].id)
OfferShop == StateOf(storeCommitted, "Shop", lastCall.log[2].id)
OfferOldItem == lastCall.log[3].id
OfferNewOffer == SignedIds(lastCall.log, "Offer")[1]
\* the Item the new Offer references
OfferNewItem == StateOf(store, "Offer", OfferNewOffer).item_id

\* the disclosed Item is a new contract and the old one is archived with its
\* stored state untouched
DisclosedByRecreation ==
    /\ Archived(store, "Item", OfferOldItem)
    /\ ~Exists(storeCommitted, "Item", OfferNewItem)
    /\ Active(store, "Item", OfferNewItem)
    /\ Active(store, "Offer", OfferNewOffer)
    /\ OfferNewItem # OfferOldItem
    /\ LET old == StateOf(storeCommitted, "Item", OfferOldItem)
           new == StateOf(store, "Item", OfferNewItem)
       IN [new EXCEPT !.observers = <<>>] = [old EXCEPT !.observers = <<>>]
    /\ \A id \in 1..Len(storeCommitted["Item"]) :
           store["Item"][id].state = storeCommitted["Item"][id].state

\* C23: after offer_item the passed item id is Archived, the
\* Offer references a new Item whose observers are the users of the Shop
\* passed in plus the owner of that Shop and whose other fields equal the old
\* item's, and no stored Item state was modified in place.
C23_DisclosureToShopOwner ==
    OfferReached =>
        /\ DisclosedByRecreation
        /\ Range(StateOf(store, "Item", OfferNewItem).observers)
               = Range(OfferShop.users) \cup {OfferShop.owner}

\* what offer_item does for every Shop: the observers of the new Item are the
\* users of the Shop passed in followed by the owner of the exercised
\* VendorRelationship, whoever owns that Shop
DisclosureToRelationshipOwner ==
    OfferReached =>
        /\ DisclosedByRecreation
        /\ StateOf(store, "Item", OfferNewItem).observers
               = Append(OfferShop.users, OfferRelationship.owner)

\* the vendor offered the Item in a Shop they own themselves
OfferInOwnShop ==
    /\ OfferReached
    /\ OfferShop.owner # OfferRelationship.owner
    /\ Archived(store, "Item", OfferOldItem)
    /\ Active(store, "Item", OfferNewItem)

\* ------------------------------------------------------------------------
\* SpecChain: one call whose body exercises rights and fetches contracts one
\* after the other, as buy_item does with sign!, settle and transfer_iou; each
\* step runs on the tables as the steps before it left them
\* ------------------------------------------------------------------------
MaxChain == 3

\* the tables after a committed offer_item, with an Iou of the user
ChainStores ==
    {Put(offer_item(NewContext(s), "vendor", 1, 3, 1, 1, "USD").c.st, "Iou",
         [issuer |-> "owner", owner |-> "user", amount |-> 1, currency |-> "USD"])
     : s \in OfferStores}

InitChain ==
    /\ caller \in Address
    /\ authorizers = <<>>
    /\ guards = <<>>
    /\ lastCheck = NoCheck
    /\ acquired = <<>>
    /\ lastDrop = NoDrop
    /\ balance = [a \in Holders |-> 0]
    /\ nft = [i \in 1..MaxNft |-> [owner |-> Nobody, uri |-> ""]]
    /\ hostCommitted = [bal |-> balance, nft |-> nft]
    /\ handles = {}
    /\ txState = "idle"
    /\ lastWithdraw = NoWithdraw
    /\ lastDeposit = NoDeposit
    /\ txLog = NewLog
    /\ store \in ChainStores
    /\ storeCommitted = store
    /\ callState = "idle"
    /\ lastCall = NoCall
    /\ removal = NoRemoval
    /\ chain = NoChain
    /\ inherit = NoInherit
    /\ contractDefinitionCount = 0
    /\ interfacesInfos = <<>>
    /\ expansions = <<>>
    /\ codec = NoCodec
    /\ kv = NoKv
    /\ hostStorage = NoStorage
    /\ arith = NoArith
    /\ emitted = NoEmit

\* the steps a body can make next: settle an offer, hand an Item or an Iou
\* on, or fetch a contract; ids range over every id issued and one never
\* issued
ChainSteps ==
    UNION {{[op |-> "settle", tag |-> "Offer", id |-> i] : i \in Ids("Offer")},
           {[op |-> "transfer_item", tag |-> "Item", id |-> i] : i \in Ids("Item")},
           {[op |-> "transfer_iou", tag |-> "Iou", id |-> i] : i \in Ids("Iou")},
           UNION {{[op |-> "fetch", tag |-> t, id |-> i] : i \in Ids(t)}
                  : t \in {"Offer", "Item", "Iou"}}}

ChainApply(ctx, c, step) ==
    CASE step.op = "settle" -> settle(ctx, c, step.id, "user").c
      [] step.op = "transfer_item" -> transfer_item(ctx, c, step.id, "user").c
      [] step.op = "transfer_iou" -> transfer_iou(ctx, c, step.id, "vendor").c
      [] OTHER -> Fetch(ctx, step.tag, step.id)

\* the contracts a step archived / created, read off the tables
ArchivedBy(before, after) ==
    UNION {{<<t, i>> : i \in {j \in 1..Len(before[t]) :
                                 ~before[t][j].archived /\ after[t][j].archived}}
           : t \in Tags}
CreatedBy(before, after) ==
    UNION {{<<t, i>> : i \in (Len(before[t]) + 1)..Len(after[t])} : t \in Tags}

ChainBegin(c) ==
    /\ callState \in {"idle", "committed", "aborted"}
    /\ caller' = c
    /\ callState' = "running"
    /\ lastCall' = [NoCall EXCEPT !.entry = "chain", !.caller = c]
    /\ chain' = NoChain
    /\ UNCHANGED <<store, storeCommitted>>

ChainStep(step) ==
    /\ callState = "running"
    /\ chain.steps < MaxChain
    /\ LET ctx == [NewContext(store) EXCEPT !.log = lastCall.log]
           after == ChainApply(ctx, caller, step)
       IN /\ WithinBounds(after.st)
          /\ store' = after.st
          /\ callState' = IF after.ok THEN "running" ELSE "panicked"
          /\ lastCall' = [lastCall EXCEPT !.ok = after.ok, !.err = after.err,
                                          !.log = after.log]
          /\ chain' = [steps |-> chain.steps + 1,
                       archived |-> chain.archived \cup ArchivedBy(store, after.st),
                       created |-> chain.created \cup CreatedBy(store, after.st),
                       last |-> [op |-> step.op, tag |-> step.tag, id |-> step.id,
                                 from |-> Len(lastCall.log) + 1,
                                 archived_before |-> chain.archived,
                                 created_before |-> chain.created]]
    /\ UNCHANGED <<caller, storeCommitted>>

ChainEnd ==
    /\ callState = "running"
    /\ callState' = "finished"
    /\ UNCHANGED <<caller, store, storeCommitted, lastCall, chain>>

ChainFrame == UNCHANGED <<authorizers, guards, lastCheck, acquired, lastDrop, assetVars, removal, inherit, macroVars, codec, kv, hostStorage, arith, emitted>>

ChainCallBegin == \E c \in Address : ChainBegin(c) /\ ChainFrame
ChainCallStep == \E step \in ChainSteps : ChainStep(step) /\ ChainFrame
ChainCallEnd == ChainEnd /\ ChainFrame

NextChain ==
    \/ ChainCallBegin
    \/ ChainCallStep
    \/ ChainCallEnd
    \/ LedgerCommit
    \/ LedgerRevert

SpecChain == InitChain /\ [][NextChain]_vars

\* the lifecycle operations the step just made logged
StepEntries == {lastCall.log[i] : i \in chain.last.from..Len(lastCall.log)}

\* C24: within one chain the effects apply in program order and later steps
\* see them: a fetch or exercise of a contract that an earlier step of the
\* chain archived fails and aborts the call, a fetch of a contract that an
\* earlier step created (and none archived) passes; and until the call
\* commits the committed tables show none of the chain's effects.
C24_ChainSeesItsOwnEffects ==
    callState \in {"running", "finished", "panicked"} =>
        /\ \A e \in StepEntries :
              /\ (/\ e.op \in {"fetch", "exercise"}
                  /\ <<e.tag, e.id>> \in chain.last.archived_before)
                 => /\ ~e.passed
                    /\ callState = "panicked"
                    /\ lastCall.err = "NotFound"
              /\ (/\ e.op = "fetch"
                  /\ <<e.tag, e.id>> \in chain.last.created_before \ chain.last.archived_before)
                 => e.passed
        /\ \A x \in chain.created : ~Exists(storeCommitted, x[1], x[2])
        /\ \A x \in chain.archived \ chain.created : Active(storeCommitted, x[1], x[2])

\* the owner settled an offer and then settled the same offer again in the
\* same call: the second settle aborted
C24_Witness ==
    /\ callState = "panicked"
    /\ chain.last.op = "settle"
    /\ <<"Offer", chain.last.id>> \in chain.last.archived_before
    /\ chain.created # {}

\* a step fetched an Item that an earlier step of the same call created
ChainFetchedCreated ==
    /\ callState = "running"
    /\ chain.last.op = "fetch"
    /\ <<chain.last.tag, chain.last.id>> \in chain.last.created_before \ chain.last.archived_before

\* ------------------------------------------------------------------------
\* SpecInherit: sign! of a Bar, whose signers are inherited from the Foo it
\* embeds, under every caller and authorizers list
\* ------------------------------------------------------------------------
MaxBars == 2

\* Foo { #[liquid(signers)] addr }
FooSigners(foo) == {foo.addr}

\* variant: only Bar's own fields count, and none of them is an address
BarSignersOwnOnly(bar) == {}

\* Bar { #[liquid(signers = inherited)] foo: Foo }
BarSigners(bar) == FooSigners(bar.foo)

AuthLists == UNION {[1..n -> Address] : n \in 0..MaxAuthLen}

InitInherit ==
    /\ caller \in Address
    /\ authorizers \in AuthLists
    /\ guards = <<>>
    /\ lastCheck = NoCheck
    /\ acquired = <<>>
    /\ lastDrop = NoDrop
    /\ balance = [a \in Holders |-> 0]
    /\ nft = [i \in 1..MaxNft |-> [owner |-> Nobody, uri |-> ""]]
    /\ hostCommitted = [bal |-> balance, nft |-> nft]
    /\ handles = {}
    /\ txState = "idle"
    /\ lastWithdraw = NoWithdraw
    /\ lastDeposit = NoDeposit
    /\ txLog = NewLog
    /\ store = EmptyStore
    /\ storeCommitted = EmptyStore
    /\ callState = "idle"
    /\ lastCall = NoCall
    /\ removal = NoRemoval
    /\ chain = NoChain
    /\ inherit = NoInherit
    /\ contractDefinitionCount = 0
    /\ interfacesInfos = <<>>
    /\ expansions = <<>>
    /\ codec = NoCodec
    /\ kv = NoKv
    /\ hostStorage = NoStorage
    /\ arith = NoArith
    /\ emitted = NoEmit

\* sign! { Bar => foo: Foo { addr } }: the signers of the new state must pass
\* the authorization check, then the state is stored
InheritSignBar(addr) ==
    /\ Len(inherit.bars) < MaxBars
    /\ LET bar == [foo |-> [addr |-> addr]]
           signers == BarSigners(bar)
           passed == AuthorizationCheck(signers, authorizers, caller)
       IN inherit' = [bars |-> IF passed THEN Append(inherit.bars, bar) ELSE inherit.bars,
                      last |-> [done |-> TRUE, bar |-> bar, signers |-> signers,
                                passed |-> passed]]
    /\ UNCHANGED <<authVars, assetVars, ledgerVars, removal, chain, macroVars, codec, kv, hostStorage, arith, emitted>>

InheritSign == \E addr \in Address : InheritSignBar(addr)

NextInherit == InheritSign

SpecInherit == InitInherit /\ [][NextInherit]_vars

MaxExpansions == 3

\* the modules an attribute is put on, as in examples/contract/kv-table-test
ContractMods == {[ident |-> "kv_table_test", interface_ident |-> ""]}
InterfaceMods == {[ident |-> "entry", interface_ident |-> "Entry"],
                  [ident |-> "kv_table", interface_ident |-> "KvTable"]}

\* how far an input gets on its own: check_idents fails, syn::parse2 fails,
\* the IR's try_from fails, or all of them succeed
Shapes == {"bad_idents", "bad_syntax", "bad_ir", "valid"}

\* variant: the count is never consulted
GenerateContractUnchecked(count, infos, m, shape) ==
    IF shape = "bad_idents" THEN [count |-> count, infos |-> infos, result |-> "err_idents"]
    ELSE IF shape = "bad_syntax" THEN [count |-> count, infos |-> infos, result |-> "err_syntax"]
    ELSE IF shape = "bad_ir" THEN [count |-> 1, infos |-> infos, result |-> "err_ir"]
    ELSE [count |-> 1, infos |-> infos, result |-> "code"]

\* variant: the count is raised only once the IR has been built
GenerateContractCountsValidated(count, infos, m, shape) ==
    IF shape = "bad_idents" THEN [count |-> count, infos |-> infos, result |-> "err_idents"]
    ELSE IF shape = "bad_syntax" THEN [count |-> count, infos |-> infos, result |-> "err_syntax"]
    ELSE IF count # 0 THEN [count |-> count, infos |-> infos, result |-> "err_redefined"]
    ELSE IF shape = "bad_ir" THEN [count |-> count, infos |-> infos, result |-> "err_ir"]
    ELSE [count |-> (count + 1) % 256, infos |-> infos, result |-> "code"]

\* generate_impl, GenerateMode::Contract
GenerateContract(count, infos, m, shape) ==
    IF shape = "bad_idents" THEN [count |-> count, infos |-> infos, result |-> "err_idents"]
    ELSE IF shape = "bad_syntax" THEN [count |-> count, infos |-> infos, result |-> "err_syntax"]
    ELSE LET had_redefined == count # 0
             c == IF count = 0 THEN (count + 1) % 256 ELSE count
         IN IF had_redefined THEN [count |-> c, infos |-> infos, result |-> "err_redefined"]
            ELSE IF shape = "bad_ir" THEN [count |-> c, infos |-> infos, result |-> "err_ir"]
            ELSE [count |-> c, infos |-> infos, result |-> "code"]

\* variant: an interface is accepted wherever it stands
GenerateInterfaceAnywhere(count, infos, m, shape) ==
    IF shape = "bad_idents" THEN [count |-> count, infos |-> infos, result |-> "err_idents"]
    ELSE IF shape = "bad_syntax" THEN [count |-> count, infos |-> infos, result |-> "err_syntax"]
    ELSE IF shape = "bad_ir" THEN [count |-> count, infos |-> infos, result |-> "err_ir"]
    ELSE [count |-> count, infos |-> Append(infos, m), result |-> "code"]

\* generate_impl, GenerateMode::Interface
GenerateInterface(count, infos, m, shape) ==
    IF shape = "bad_idents" THEN [count |-> count, infos |-> infos, result |-> "err_idents"]
    ELSE IF shape = "bad_syntax" THEN [count |-> count, infos |-> infos, result |-> "err_syntax"]
    ELSE LET had_defined_contract_before == count # 0
         IN IF had_defined_contract_before
            THEN [count |-> count, infos |-> infos, result |-> "err_misplaced"]
            ELSE IF shape = "bad_ir" THEN [count |-> count, infos |-> infos, result |-> "err_ir"]
            ELSE [count |-> count, infos |-> Append(infos, m), result |-> "code"]

Expanded(mode, m, shape, r) ==
    /\ Len(expansions) < MaxExpansions
    /\ contractDefinitionCount' = r.count
    /\ interfacesInfos' = r.infos
    /\ expansions' = Append(expansions,
                            [mode |-> mode, mod |-> m, shape |-> shape, result |-> r.result,
                             count_before |-> contractDefinitionCount, count_after |-> r.count,
                             infos_before |-> interfacesInfos, infos_after |-> r.infos])
    /\ UNCHANGED <<authVars, assetVars, ledgerVars, removal, chain, inherit, codec, kv, hostStorage, arith, emitted>>

\* #[liquid::contract] on a module
ExpandContract ==
    \E m \in ContractMods, shape \in Shapes :
        Expanded("Contract", m, shape,
                 GenerateContract(contractDefinitionCount, interfacesInfos, m, shape))

\* #[liquid::interface] on a module
ExpandInterface ==
    \E m \in InterfaceMods, shape \in Shapes :
        Expanded("Interface", m, shape,
                 GenerateInterface(contractDefinitionCount, interfacesInfos, m, shape))

NextMacro ==
    \/ ExpandContract
    \/ ExpandInterface

SpecMacro == Init /\ [][NextMacro]_vars

ExpansionsOf(mode) == {i \in 1..Len(expansions) : expansions[i].mode = mode}
\* the input passes check_idents and parses, so the expansion gets to the count
ReachesCount(e) == e.shape \in {"bad_ir", "valid"}

RECURSIVE AcceptedInterfaces(_)
AcceptedInterfaces(es) ==
    IF es = <<>> THEN <<>>
    ELSE (IF Head(es).mode = "Interface" /\ Head(es).result = "code"
          THEN <<Head(es).mod>> ELSE <<>>) \o AcceptedInterfaces(Tail(es))

\* C27: an #[liquid::interface] expanded after a contract definition has been
\* counted generates no code and registers no InterfaceInfo, and is rejected
\* as misplaced whenever it passes the identifier check and parses; a valid
\* one expanded before is accepted and appends exactly its own InterfaceInfo,
\* so the registry lists the accepted interfaces in expansion order.
C27_InterfacesBeforeContract ==
    /\ interfacesInfos = AcceptedInterfaces(expansions)
    /\ \A i \in ExpansionsOf("Interface") :
         LET e == expansions[i] IN
         /\ e.count_after = e.count_before
         /\ e.count_before # 0 =>
               /\ e.result # "code"
               /\ e.infos_after = e.infos_before
               /\ ReachesCount(e) => e.result = "err_misplaced"
         /\ (e.count_before = 0 /\ e.shape = "valid") =>
               /\ e.result = "code"
               /\ e.infos_after = Append(e.infos_before, e.mod)
         /\ e.result # "code" => e.infos_after = e.infos_before
    /\ \A i \in ExpansionsOf("Contract") :
         expansions[i].infos_after = expansions[i].infos_before

\* two interfaces were registered in order, the contract was counted, and a
\* valid interface expanded after it was rejected
C27_Witness ==
    /\ Len(expansions) >= 3
    /\ expansions[1].mode = "Interface" /\ expansions[1].result = "code"
    /\ expansions[2].mode = "Contract" /\ expansions[2].result = "code"
    /\ expansions[3].mode = "Interface" /\ expansions[3].shape = "valid"
    /\ expansions[3].result = "err_misplaced"
    /\ Len(interfacesInfos) = 1

\* ------------------------------------------------------------------------
\* SpecCodec: scale::Encode / scale::Decode of i256 (int256.rs), on values
\* drawn around the byte and range boundaries. Values are kept as byte
\* strings, so the 256 bits of the source are modelled at full width.
\* ------------------------------------------------------------------------
I256Bytes == 32
MaxHeadLen == 2

\* the bytes the drawn values are made of
EdgeBytes == {0, 1, 127, 128, 255}

Repeat(b, n) == [i \in 1..n |-> b]

StripZeros(bs) ==
    IF Len(bs) = 0 THEN <<>>
    ELSE LET nonzero == {i \in 1..Len(bs) : bs[i] # 0}
         IN IF nonzero = {} THEN <<>>
            ELSE SubSeq(bs, CHOOSE k \in nonzero : \A j \in nonzero : k <= j, Len(bs))

AllZero(bs) == \A i \in 1..Len(bs) : bs[i] = 0

\* BigInt from sign and magnitude bytes: NoSign for zero
FromBiguint(neg, bs) ==
    LET mag == StripZeros(bs) IN [mag |-> mag, neg |-> neg /\ mag # <<>>]

\* num-bigint twos_complement_be: from the least significant byte, invert
\* and add the carry. The carry reaches byte k of 1..i when it was set and
\* every byte after k became zero, which is when each of them was zero.
TwosFrom(bs, i, carry) ==
    [k \in 1..Len(bs) |->
        IF k > i THEN bs[k]
        ELSE LET inv == 255 - bs[k]
             IN IF carry /\ \A j \in (k + 1)..i : bs[j] = 0
                THEN (inv + 1) % 256 ELSE inv]
TwosComplementBe(bs) == TwosFrom(bs, Len(bs), TRUE)

\* BigInt::to_signed_bytes_be: the shortest two's complement, big-endian
ToSignedBytesBe(x) ==
    LET bytes == IF x.mag = <<>> THEN <<0>> ELSE x.mag
        first_byte == bytes[1]
        extended == IF first_byte > 127
                       /\ ~(first_byte = 128 /\ AllZero(Tail(bytes)) /\ x.neg)
                    THEN <<0>> \o bytes ELSE bytes
    IN IF x.neg THEN TwosComplementBe(extended) ELSE extended

\* BigInt::from_signed_bytes_be
FromSignedBytesBe(digits) ==
    IF digits = <<>> THEN Zero256
    ELSE IF digits[1] > 127 THEN FromBiguint(TRUE, TwosComplementBe(digits))
         ELSE FromBiguint(FALSE, digits)

\* variant: the result array is not filled with 0xff for a negative value
ToBeBytesZeroFill(x) ==
    LET bytes == ToSignedBytesBe(x)
    IN IF Len(bytes) > I256Bytes THEN [ok |-> FALSE, res |-> <<>>]
       ELSE [ok |-> TRUE, res |-> Repeat(0, I256Bytes - Len(bytes)) \o bytes]

\* i256::to_be_bytes: res[32 - bytes.len()..].copy_from_slice(&bytes) panics
\* when the value needs more than 32 bytes
ToBeBytes(x) ==
    LET bytes == ToSignedBytesBe(x)
        fill == IF x.neg THEN 255 ELSE 0
    IN IF Len(bytes) > I256Bytes THEN [ok |-> FALSE, res |-> <<>>]
       ELSE [ok |-> TRUE, res |-> Repeat(fill, I256Bytes - Len(bytes)) \o bytes]

\* scale::Encode for i256
Encode256(x) == ToBeBytes(x)

\* scale::Decode for i256: reads 32 bytes, fails on a shorter input
Decode256(input) ==
    IF Len(input) < I256Bytes THEN [ok |-> FALSE, v |-> Zero256]
    ELSE [ok |-> TRUE, v |-> FromSignedBytesBe(SubSeq(input, 1, I256Bytes))]

\* the drawn values: up to MaxHeadLen leading bytes followed by a run of 0x00
\* or 0xff, up to one byte more than i256 holds
Heads == UNION {[1..n -> EdgeBytes] : n \in 1..MaxHeadLen}
Drawn256 ==
    UNION {{FromBiguint(neg, h \o Repeat(f, k))
            : neg \in BOOLEAN, f \in {0, 255}, k \in 0..(I256Bytes + 1 - Len(h))}
           : h \in Heads}

\* -2^255 <= x <= 2^255 - 1
InRange256(x) ==
    \/ Len(x.mag) < I256Bytes
    \/ /\ Len(x.mag) = I256Bytes
       /\ \/ x.mag[1] <= 127
          \/ x.neg /\ x.mag[1] = 128 /\ AllZero(Tail(x.mag))

InitCodec ==
    /\ caller = "user"
    /\ authorizers = <<>>
    /\ guards = <<>>
    /\ lastCheck = NoCheck
    /\ acquired = <<>>
    /\ lastDrop = NoDrop
    /\ balance = [a \in Holders |-> 0]
    /\ nft = [i \in 1..MaxNft |-> [owner |-> Nobody, uri |-> ""]]
    /\ hostCommitted = [bal |-> balance, nft |-> nft]
    /\ handles = {}
    /\ txState = "idle"
    /\ lastWithdraw = NoWithdraw
    /\ lastDeposit = NoDeposit
    /\ txLog = NewLog
    /\ store = EmptyStore
    /\ storeCommitted = EmptyStore
    /\ callState = "idle"
    /\ lastCall = NoCall
    /\ removal = NoRemoval
    /\ chain = NoChain
    /\ inherit = NoInherit
    /\ contractDefinitionCount = 0
    /\ interfacesInfos = <<>>
    /\ expansions = <<>>
    /\ \E x \in Drawn256 : codec = [NoCodec EXCEPT !.x = x]
    /\ kv = NoKv
    /\ hostStorage = NoStorage
    /\ arith = NoArith
    /\ emitted = NoEmit

CodecFrame ==
    UNCHANGED <<authVars, assetVars, ledgerVars, removal, chain, inherit, macroVars, kv, hostStorage, arith, emitted>>

CodecEncode ==
    /\ codec.stage = "none"
    /\ LET e == Encode256(codec.x)
       IN codec' = [codec EXCEPT !.stage = "encoded", !.encoded = e.res,
                                 !.panicked = ~e.ok]
    /\ CodecFrame

CodecDecode ==
    /\ codec.stage = "encoded"
    /\ ~codec.panicked
    /\ LET d == Decode256(codec.encoded)
       IN codec' = [codec EXCEPT !.stage = IF d.ok THEN "decoded" ELSE "failed",
                                 !.decoded = d.v]
    /\ CodecFrame

NextCodec ==
    \/ CodecEncode
    \/ CodecDecode

SpecCodec == InitCodec /\ [][NextCodec]_vars

\* the carry into byte k from bytes k+1..i with the byte sums s and the
\* carry cin into byte i: a byte after k overflows by itself, or passes the
\* carry it is given, and every byte between it and k passes a carry on
CarryInto(s, k, i, cin) ==
    \/ \E j \in (k + 1)..i : s[j] > 255 /\ \A m \in (k + 1)..(j - 1) : s[m] = 255
    \/ cin = 1 /\ \A m \in (k + 1)..i : s[m] = 255

\* byte-wise sum of two equally long big-endian strings, carry out dropped
AddFrom(a, b, i, carry) ==
    LET s == [k \in 1..i |-> a[k] + b[k]]
    IN [k \in 1..Len(a) |->
           IF k > i THEN a[k]
           ELSE (s[k] + (IF CarryInto(s, k, i, carry) THEN 1 ELSE 0)) % 256]
AddBytes(a, b) == AddFrom(a, b, Len(a), 0)

\* |x| as I256Bytes bytes
PaddedMag(x) == Repeat(0, I256Bytes - Len(x.mag)) \o x.mag

\* C28: for every i256 x with -2^255 <= x <= 2^255 - 1 the encoding is exactly
\* 32 bytes, the big-endian two's complement of x (|x| itself, zero-padded,
\* for x >= 0; the 32 bytes that add up with |x| to zero modulo 2^256, with
\* the top bit set and 0xff in front of the shortest form, for x < 0), and
\* decoding it gives x back.
C28_CodecRoundTrip ==
    (codec.stage # "none" /\ InRange256(codec.x)) =>
        LET x == codec.x
            e == codec.encoded
        IN /\ ~codec.panicked
           /\ Len(e) = I256Bytes
           /\ ~x.neg => e = PaddedMag(x)
           /\ x.neg => /\ AllZero(AddBytes(e, PaddedMag(x)))
                       /\ e[1] >= 128
                       /\ \A i \in 1..(I256Bytes - Len(x.mag)) : e[i] = 255
           /\ codec.stage \in {"encoded", "decoded"}
           /\ codec.stage = "decoded" => codec.decoded = x

\* a negative value whose shortest form is a single byte went through the
\* encoding and came back
C28_Witness ==
    /\ codec.stage = "decoded"
    /\ codec.x.neg
    /\ Len(codec.x.mag) = 1
    /\ codec.decoded = codec.x

\* the smallest and the largest i256 came back from the round trip
CodecMinDecoded ==
    /\ codec.stage = "decoded"
    /\ codec.x = [neg |-> TRUE, mag |-> <<128>> \o Repeat(0, I256Bytes - 1)]
CodecMaxDecoded ==
    /\ codec.stage = "decoded"
    /\ codec.x = [neg |-> FALSE, mag |-> <<127>> \o Repeat(255, I256Bytes - 1)]
\* a value one past the range made to_be_bytes panic
CodecOutOfRange == codec.stage = "encoded" /\ codec.panicked

\* ------------------------------------------------------------------------
\* SpecKv: KvTableTest::set and ::get against the host's KvTable. The table
\* keeps one entry per primary key; an entry keeps each field as bytes, an
\* i256 as to_be_bytes gives them and a String as its UTF-8 bytes.
\* ------------------------------------------------------------------------
MaxKvSets == 2

KvIds == {"dog", "cat"}
\* 2000, -1, -129 and 2^255 - 1
KvPrices == {[neg |-> FALSE, mag |-> <<7, 208>>],
             [neg |-> TRUE, mag |-> <<1>>],
             [neg |-> TRUE, mag |-> <<129>>],
             [neg |-> FALSE, mag |-> <<127>> \o Repeat(255, I256Bytes - 1)]}
\* "bc" and "d", as UTF-8
KvNames == {<<98, 99>>, <<100>>}
\* what table.set answers: the call fails, or it reports a count
KvAnswers == {"fails", "zero", "one"}
Count256(answer) == IF answer = "one" THEN [neg |-> FALSE, mag |-> <<1>>] ELSE Zero256

\* String::from_utf8 on the bytes of an ASCII string
FromUtf8(bs) ==
    IF \A i \in 1..Len(bs) : bs[i] <= 127 THEN [ok |-> TRUE, v |-> bs]
    ELSE [ok |-> FALSE, v |-> <<>>]

Has(f, k) == k \in DOMAIN f
With(f, k, v) == [x \in DOMAIN f \cup {k} |-> IF x = k THEN v ELSE f[x]]

\* variant: the price is written under the field name the table was created
\* with (PRICE_FIELD, "item_field")
KvTableTestSetPriceField(t, id, item_price, item_name, answer) ==
    LET price_bytes == ToBeBytes(item_price)
        e1 == With(<<>>, "id", [i \in 1..0 |-> 0])
        e2 == With(e1, "item_field", price_bytes.res)
        entry == With(e2, "item_name", item_name)
        count == Count256(answer)
    IN IF ~price_bytes.ok \/ answer = "fails"
       THEN [t |-> t, ok |-> FALSE, ret |-> <<>>, events |-> <<>>]
       ELSE [t |-> With(t, id, entry), ok |-> TRUE, ret |-> <<count>>,
             events |-> <<[count |-> count]>>]

\* KvTableTest::set: a new entry with id, item_price and item_name, table.set,
\* emit SetResult { count }, return count
KvTableTestSet(t, id, item_price, item_name, answer) ==
    LET price_bytes == ToBeBytes(item_price)
        e1 == With(<<>>, "id", [i \in 1..0 |-> 0])
        e2 == With(e1, "item_price", price_bytes.res)
        entry == With(e2, "item_name", item_name)
        count == Count256(answer)
    IN IF ~price_bytes.ok \/ answer = "fails"
       THEN [t |-> t, ok |-> FALSE, ret |-> <<>>, events |-> <<>>]
       ELSE [t |-> With(t, id, entry), ok |-> TRUE, ret |-> <<count>>,
             events |-> <<[count |-> count]>>]

\* KvTableTest::get: (ok, getInt("item_price"), getString("item_name")) of
\* the entry the table has, (false, 0, "") when it has none
KvTableTestGet(t, id) ==
    IF ~Has(t, id) THEN [ok |-> TRUE, ret |-> <<FALSE, Zero256, <<>>>>]
    ELSE LET entry == t[id]
         IN IF ~Has(entry, "item_price") \/ ~Has(entry, "item_name")
            THEN [ok |-> FALSE, ret |-> <<>>]
            ELSE LET name == FromUtf8(entry["item_name"])
                 IN IF ~name.ok THEN [ok |-> FALSE, ret |-> <<>>]
                    ELSE [ok |-> TRUE,
                          ret |-> <<TRUE, FromSignedBytesBe(entry["item_price"]), name.v>>]

KvFrame ==
    UNCHANGED <<authVars, assetVars, ledgerVars, removal, chain, inherit, macroVars, codec, hostStorage, arith, emitted>>

\* KvTableTest::new: createTable
KvNew ==
    /\ ~kv.created
    /\ kv' = [kv EXCEPT !.created = TRUE, !.last = [NoKvCall EXCEPT !.op = "new"]]
    /\ KvFrame

KvSet ==
    /\ kv.created
    /\ Len(kv.events) < MaxKvSets
    /\ \E id \in KvIds, price \in KvPrices, name \in KvNames, answer \in KvAnswers :
         LET r == KvTableTestSet(kv.rows, id, price, name, answer)
         IN kv' = [kv EXCEPT
                     !.rows = r.t,
                     !.events = @ \o r.events,
                     !.latest = IF r.ok THEN With(@, id, [price |-> price, name |-> name])
                                ELSE @,
                     !.last = [op |-> "set", id |-> id, price |-> price, name |-> name,
                               answer |-> answer, ok |-> r.ok, ret |-> r.ret,
                               emitted |-> Len(r.events)]]
    /\ KvFrame

KvGet ==
    /\ kv.created
    /\ \E id \in KvIds :
         LET r == KvTableTestGet(kv.rows, id)
         IN kv' = [kv EXCEPT !.last = [NoKvCall EXCEPT !.op = "get", !.id = id,
                                                       !.ok = r.ok, !.ret = r.ret]]
    /\ KvFrame

NextKv ==
    \/ KvNew
    \/ KvSet
    \/ KvGet

SpecKv == Init /\ [][NextKv]_vars

\* C29: after a set(id, price, name) that succeeded, get(id) returns
\* (true, price, name) of the last such set, the price stored as the 32 bytes
\* of to_be_bytes and read back by from_signed_be_bytes unchanged; and a set
\* that succeeds returns the count the table reported and emits exactly one
\* SetResult event carrying that count.
C29_SetGetRoundTrip ==
    /\ (kv.last.op = "get" /\ Has(kv.latest, kv.last.id)) =>
          /\ kv.last.ok
          /\ kv.last.ret = <<TRUE, kv.latest[kv.last.id].price, kv.latest[kv.last.id].name>>
          /\ Len(kv.rows[kv.last.id]["item_price"]) = I256Bytes
    /\ (kv.last.op = "set" /\ kv.last.ok) =>
          /\ kv.last.ret = <<Count256(kv.last.answer)>>
          /\ kv.last.emitted = 1
          /\ kv.events[Len(kv.events)] = [count |-> Count256(kv.last.answer)]
    /\ (kv.last.op = "set" /\ ~kv.last.ok) => kv.last.emitted = 0

\* a negative price was set, the table reported the count 1, and get read
\* the price back
C29_Witness ==
    /\ kv.last.op = "get"
    /\ Has(kv.latest, kv.last.id)
    /\ kv.latest[kv.last.id].price.neg
    /\ kv.last.ret[2] = kv.latest[kv.last.id].price
    /\ \E i \in 1..Len(kv.events) : kv.events[i].count = Count256("one")

\* ------------------------------------------------------------------------
\* Claims about the caller under a non-empty authorizers list (SpecAuth)
\* ------------------------------------------------------------------------
\* C30: with a non-empty authorizers list the caller is not consulted. A
\* required signer that is the current caller but is not in the list makes
\* __liquid_authorization_check return false, required signers that are all
\* in the list pass even when none of them is the caller, and the same check
\* made on behalf of any other caller gives the same result.
C30_CallerNotConsulted ==
    (lastCheck.n = 1 /\ lastCheck.auth # <<>>) =>
        /\ (/\ lastCheck.caller \in lastCheck.parties
            /\ lastCheck.caller \notin Range(lastCheck.auth)) => ~lastCheck.result
        /\ lastCheck.parties \subseteq Range(lastCheck.auth) => lastCheck.result
        /\ \A c \in Address :
              AuthorizationCheck(lastCheck.parties, lastCheck.auth, c) = lastCheck.result

\* the caller alone was required, the list held only other addresses, and the
\* check failed
C30_Witness ==
    /\ lastCheck.n = 1
    /\ lastCheck.auth # <<>>
    /\ lastCheck.parties = {lastCheck.caller}
    /\ lastCheck.caller \notin Range(lastCheck.auth)
    /\ ~lastCheck.result

\* a signer that is in the list and is not the caller passed
ListedForeignSignerPassed ==
    /\ lastCheck.n = 1
    /\ lastCheck.auth # <<>>
    /\ lastCheck.parties # {}
    /\ lastCheck.caller \notin lastCheck.parties
    /\ lastCheck.result

\* ------------------------------------------------------------------------
\* Claims about nested guard scopes (SpecGuard)
\* ------------------------------------------------------------------------
\* every entry of the one flat list passes the check, whichever live scope
\* appended it
FlatListAccepted ==
    (guards # <<>> /\ authorizers # <<>>) =>
        \A p \in Range(authorizers) : AuthorizationCheck({p}, authorizers, caller)

\* C31: all live guard scopes share one flat authorizers list. The check
\* accepts a party appended by any still-live scope; every party that was in
\* the list when a still-live guard was acquired is still accepted (an inner
\* scope widens, never narrows); and when a guard is dropped the list is back
\* to what it was at its acquisition, so what the scope added is gone.
C31_ScopesOnlyWiden ==
    /\ FlatListAccepted
    /\ \A k \in 1..Len(acquired) :
          \A p \in Range(acquired[k].atAcquire) :
              AuthorizationCheck({p}, authorizers, caller)
    /\ lastDrop.exit # "none" => lastDrop.after = lastDrop.atAcquire

\* C31 (amended): as above for scopes that only append. authorizers() hands
\* out the whole list, so the two last parts hold for a guard below whose
\* recorded length no holder has removed or overwritten an entry.
C31_AppendingScopesOnlyWiden ==
    /\ FlatListAccepted
    /\ \A k \in 1..Len(acquired) :
          ~acquired[k].touched =>
              \A p \in Range(acquired[k].atAcquire) :
                  AuthorizationCheck({p}, authorizers, caller)
    /\ (lastDrop.exit # "none" /\ ~lastDrop.touched) =>
          lastDrop.after = lastDrop.atAcquire

\* an inner guard that had appended to a non-empty list was dropped while the
\* outer guard stays live: the list is the outer scope's again
C31_Witness ==
    /\ lastDrop.exit # "none"
    /\ lastDrop.depth = 2
    /\ ~lastDrop.touched
    /\ lastDrop.atAcquire # <<>>
    /\ Len(lastDrop.before) > Len(lastDrop.atAcquire)
    /\ authorizers = lastDrop.atAcquire
    /\ Len(guards) = 1

\* C32: whenever no AuthorizersGuard is live (in particular at the start of
\* every external call) the authorizers list is empty, and a check made then
\* is decided by the caller identity alone: it passes exactly for the subsets
\* of {caller}.
C32_NoGuardEmptyList ==
    guards = <<>> =>
        /\ authorizers = <<>>
        /\ \A parties \in SUBSET Address :
              AuthorizationCheck(parties, authorizers, caller)
                  <=> parties \subseteq {caller}

\* the outermost guard, under which parties were appended, has been dropped:
\* no guard is live and the list is empty again
C32_Witness ==
    /\ guards = <<>>
    /\ lastDrop.exit # "none"
    /\ lastDrop.depth = 1
    /\ lastDrop.before # <<>>
    /\ authorizers = <<>>
    /\ \E p \in Range(lastDrop.before) :
          p # caller /\ ~AuthorizationCheck({p}, authorizers, caller)

\* C33: dropping an AuthorizersGuard that recorded length n only truncates.
\* The list after the drop is the first min(n, current length) entries of
\* the list before it, unchanged: the drop never lengthens the list, and
\* where the holder removed or overwrote entries below index n it does not
\* put the entries of the acquisition back.
C33_DropOnlyTruncates ==
    lastDrop.exit # "none" =>
        LET m == IF lastDrop.len <= Len(lastDrop.before)
                 THEN lastDrop.len ELSE Len(lastDrop.before)
        IN  /\ Len(lastDrop.after) = m
            /\ Len(lastDrop.after) <= Len(lastDrop.before)
            /\ \A i \in 1..m : lastDrop.after[i] = lastDrop.before[i]
            /\ SubSeq(lastDrop.before, 1, m) # lastDrop.atAcquire
                  => lastDrop.after # lastDrop.atAcquire

\* a guard was dropped whose holder had changed an entry below the recorded
\* length: the list after the drop keeps the changed entry
C33_Witness ==
    /\ lastDrop.exit # "none"
    /\ lastDrop.touched
    /\ lastDrop.len > 0
    /\ lastDrop.after # <<>>
    /\ lastDrop.after # lastDrop.atAcquire
    /\ lastDrop.after = SubSeq(lastDrop.before, 1, Len(lastDrop.after))

\* ------------------------------------------------------------------------
\* Claims about withdrawals and failed deposits (SpecAsset)
\* ------------------------------------------------------------------------
\* the account the host takes a handle's amount from
TransferSource(h) == IF h.from_self THEN SelfAddress ELSE caller

\* live handles drawn on one account for more than the account holds, each
\* of them alone within the balance
Overdrawn(hs) ==
    \E h1 \in hs, h2 \in hs :
        /\ h1 # h2
        /\ h1.from_self = h2.from_self
        /\ h1.value <= balance[TransferSource(h1)]
        /\ h2.value <= balance[TransferSource(h1)]
        /\ h1.value + h2.value > balance[TransferSource(h1)]

\* C34: withdraw_from_caller and withdraw_from_self neither debit nor
\* reserve. A withdrawal leaves every balance as it is, never aborts, and
\* returns a handle exactly when the source balance alone covers the amount,
\* whatever handles are already out; a deposit whose host transfer succeeds
\* found the amount in the balance at that moment, and one whose transfer
\* fails aborts the call. Two handles that together exceed the balance are
\* therefore both constructed and the shortfall shows only in a deposit.
C34_WithdrawReservesNothing ==
    [][ /\ lastWithdraw'.fn # "none" =>
              /\ balance' = balance
              /\ txState' = "running"
              /\ lastWithdraw'.result.some <=>
                     balance[lastWithdraw'.source] >= lastWithdraw'.arg
        /\ lastDeposit'.transferred =>
              IF lastDeposit'.transfer_ok
              THEN \E h \in handles :
                      /\ handles' = handles \ {h}
                      /\ balance[TransferSource(h)] >= h.value
              ELSE txState' = "aborted"
        /\ (lastDeposit'.transferred
                /\ \A h \in handles : balance[TransferSource(h)] < h.value)
              => ~lastDeposit'.transfer_ok
      ]_vars

\* the second of two withdrawals from one balance has just returned a
\* handle although the two amounts together exceed the balance
C34_Witness ==
    /\ lastWithdraw.fn # "none"
    /\ lastWithdraw.result.some
    /\ lastWithdraw.handlesBefore # {}
    /\ Cardinality(handles) = 2
    /\ Overdrawn(handles)
    /\ balance = lastWithdraw.balBefore
    /\ txState = "running"

\* C35: a failed deposit is fatal. When the host transfer of deposit returns
\* false the handle is dropped at the end of deposit with stored == false,
\* the call aborts and the host puts the balances back; a deposit after which
\* the call is still running has made its transfer, and the transfer
\* succeeded.
C35_FailedDepositIsFatal ==
    /\ (lastDeposit.transferred /\ ~lastDeposit.transfer_ok) =>
          /\ ~lastDeposit.stored
          /\ txLog.unstoredDrops >= 1
          /\ txState = "aborted"
          /\ handles = {}
          /\ balance = hostCommitted.bal
          /\ nft = hostCommitted.nft
    /\ (lastDeposit.called /\ txState = "running") =>
          /\ lastDeposit.transferred
          /\ lastDeposit.transfer_ok
          /\ lastDeposit.stored

\* the host refused the transfer of a deposit to an account that needs no
\* capability check, and the call aborted on the drop of the handle
C35_Witness ==
    /\ lastDeposit.called
    /\ ~lastDeposit.is_contract
    /\ lastDeposit.transferred
    /\ ~lastDeposit.transfer_ok
    /\ ~lastDeposit.stored
    /\ txLog.unstoredDrops = 1
    /\ txState = "aborted"

\* ------------------------------------------------------------------------
\* Claims about a contract definition that fails validation (SpecMacro)
\* ------------------------------------------------------------------------
\* the contract definitions that took the count from 0 and then failed in
\* ir::Contract::try_from
FailedFirstContracts ==
    {i \in ExpansionsOf("Contract") :
        expansions[i].shape = "bad_ir" /\ expansions[i].count_before = 0}

\* C36: the contract-definition count is 0 or 1 and is raised before the IR
\* of the contract is validated. A first contract definition that fails in
\* validation leaves the count at 1, and every contract or interface
\* definition expanded after it generates no code: one that passes the
\* identifier check and parses is rejected as redefined (contract) or as
\* misplaced (interface), and no interface is recorded any more.
C36_FailedContractStillCounts ==
    /\ contractDefinitionCount \in {0, 1}
    /\ \A i \in 1..Len(expansions) :
          expansions[i].count_before \in {0, 1} /\ expansions[i].count_after \in {0, 1}
    /\ \A i \in FailedFirstContracts :
          /\ expansions[i].result = "err_ir"
          /\ expansions[i].count_after = 1
          /\ \A j \in (i + 1)..Len(expansions) :
                LET e == expansions[j] IN
                /\ e.result # "code"
                /\ e.count_before = 1 /\ e.count_after = 1
                /\ e.infos_after = expansions[i].infos_after
                /\ ReachesCount(e) =>
                      e.result = IF e.mode = "Contract" THEN "err_redefined"
                                 ELSE "err_misplaced"

\* a contract failed validation first; the valid interface and the valid
\* contract that followed were both rejected
C36_Witness ==
    /\ Len(expansions) = 3
    /\ 1 \in FailedFirstContracts
    /\ expansions[2].mode = "Interface" /\ expansions[2].shape = "valid"
    /\ expansions[2].result = "err_misplaced"
    /\ expansions[3].mode = "Contract" /\ expansions[3].shape = "valid"
    /\ expansions[3].result = "err_redefined"

\* ------------------------------------------------------------------------
\* Host storage of the on-chain engine (on_chain/mod.rs:69-88)
\* ------------------------------------------------------------------------
\* the largest byte stored in the runs explored
MaxStoredByte == 1
StoredBytes == 0..MaxStoredByte

\* the value types read and written: (), u8 and Vec<u8> of at most one byte
StorageTypes == {"unit", "u8", "vec"}
StorageValues ==
    {[ty |-> "unit", v |-> <<>>]}
        \cup {[ty |-> "u8", v |-> <<b>>] : b \in StoredBytes}
        \cup {[ty |-> "vec", v |-> <<>>]}
        \cup {[ty |-> "vec", v |-> <<b>>] : b \in StoredBytes}

\* scale::Encode: () is no byte, u8 is its byte, Vec<u8> is the compact
\* length (one byte, the length shifted left by two) and then the bytes
ScaleEncode(value) ==
    IF value.ty = "unit" THEN <<>>
    ELSE IF value.ty = "u8" THEN value.v
    ELSE <<4 * Len(value.v)>> \o value.v

\* scale::Decode::decode from a slice: reads what the type needs from the
\* front and fails when the input ends early
ScaleDecode(ty, bytes) ==
    IF ty = "unit" THEN [ok |-> TRUE, v |-> <<>>]
    ELSE IF ty = "u8"
    THEN IF Len(bytes) >= 1 THEN [ok |-> TRUE, v |-> <<bytes[1]>>]
         ELSE [ok |-> FALSE, v |-> <<>>]
    ELSE IF Len(bytes) >= 1 /\ bytes[1] % 4 = 0 /\ Len(bytes) >= 1 + (bytes[1] \div 4)
    THEN [ok |-> TRUE, v |-> SubSeq(bytes, 2, 1 + (bytes[1] \div 4))]
    ELSE [ok |-> FALSE, v |-> <<>>]

\* ext::set_storage: the host puts the bytes under the key
ExtSetStorage(st, key, bytes) == [st EXCEPT ![key] = bytes]

\* ext::get_storage: the size of what the host holds under the key, and
\* not_found for a key that holds nothing
ExtGetStorage(st, key) ==
    IF Len(st[key]) = 0 THEN [ok |-> FALSE, size |-> 0, bytes |-> <<>>]
    ELSE [ok |-> TRUE, size |-> Len(st[key]), bytes |-> st[key]]

\* EnvInstance::set_storage
SetStorage(st, key, value) == ExtSetStorage(st, key, ScaleEncode(value))

\* EnvInstance::get_storage::<R>
GetStorage(st, key, ty) ==
    LET r == ExtGetStorage(st, key) IN
    IF ~r.ok THEN [ok |-> FALSE, err |-> "not_found", v |-> <<>>]
    ELSE LET d == ScaleDecode(ty, SubSeq(r.bytes, 1, r.size))
         IN IF d.ok THEN [ok |-> TRUE, err |-> "none", v |-> d.v]
            ELSE [ok |-> FALSE, err |-> "decode", v |-> <<>>]

\* variant: removal leaves the stored bytes alone
RemoveStorageKeeps(st, key) == st

\* EnvInstance::remove_storage
RemoveStorage(st, key) == ExtSetStorage(st, key, <<>>)

StorageFrame ==
    UNCHANGED <<authVars, assetVars, ledgerVars, removal, chain, inherit, macroVars, codec, kv, arith, emitted>>

StorageSet ==
    \E key \in StorageKeys, value \in StorageValues :
        /\ hostStorage' = [st |-> SetStorage(hostStorage.st, key, value),
                           removed |-> hostStorage.removed \ {key},
                           written |-> hostStorage.written \cup {key},
                           last |-> [NoStorageCall EXCEPT !.op = "set", !.key = key,
                                                          !.ty = value.ty, !.v = value.v]]
        /\ StorageFrame

StorageGet ==
    \E key \in StorageKeys, ty \in StorageTypes :
        LET r == GetStorage(hostStorage.st, key, ty)
        IN /\ hostStorage' = [hostStorage EXCEPT
                                 !.last = [op |-> "get", key |-> key, ty |-> ty,
                                           ok |-> r.ok, err |-> r.err, v |-> r.v]]
           /\ StorageFrame

StorageRemove ==
    \E key \in StorageKeys :
        /\ hostStorage' = [hostStorage EXCEPT
                              !.st = RemoveStorage(hostStorage.st, key),
                              !.removed = @ \cup {key},
                              !.last = [NoStorageCall EXCEPT !.op = "remove", !.key = key]]
        /\ StorageFrame

NextStorage ==
    \/ StorageSet
    \/ StorageGet
    \/ StorageRemove

SpecStorage == Init /\ [][NextStorage]_vars

\* C37: after remove_storage(key) and until the next set_storage(key, ..),
\* get_storage(key) reports not_found for every type read, also for a type
\* that decodes from no bytes, and never gives a decoded value; the removal
\* is the write of the empty value under the key.
C37_RemovedReadsNotFound ==
    /\ \A key \in hostStorage.removed :
          /\ hostStorage.st[key] = <<>>
          /\ \A ty \in StorageTypes :
                LET r == GetStorage(hostStorage.st, key, ty)
                IN ~r.ok /\ r.err = "not_found"
    /\ (hostStorage.last.op = "get" /\ hostStorage.last.key \in hostStorage.removed) =>
          /\ ~hostStorage.last.ok
          /\ hostStorage.last.err = "not_found"
          /\ hostStorage.last.v = <<>>
    /\ (hostStorage.last.op = "remove") =>
          hostStorage.st[hostStorage.last.key] = <<>>

\* a key that had been written and then removed was read as (), the type
\* that would decode from the empty value: the read reported not_found
C37_Witness ==
    /\ hostStorage.last.op = "get"
    /\ hostStorage.last.ty = "unit"
    /\ hostStorage.last.key \in hostStorage.removed
    /\ hostStorage.last.key \in hostStorage.written
    /\ hostStorage.last.err = "not_found"

\* ------------------------------------------------------------------------
\* i256 arithmetic (int256.rs:68-82, 171-270). BigInt is kept as sign and
\* big-endian magnitude bytes, so sums and products are exact at any size
\* and the range check is the comparison the source makes.
\* ------------------------------------------------------------------------
\* the small operands are -MaxSmall .. MaxSmall
MaxSmall == 2

\* i256::from(n) for a one-byte n
FromInt(n) ==
    IF n = 0 THEN Zero256
    ELSE [neg |-> n < 0, mag |-> <<IF n < 0 THEN 0 - n ELSE n>>]

\* Bounded::min_value: -2^255
MinValue256 == [neg |-> TRUE, mag |-> <<128>> \o Repeat(0, I256Bytes - 1)]
\* Bounded::max_value: 2^255 - 1
MaxValue256 == [neg |-> FALSE, mag |-> <<127>> \o Repeat(255, I256Bytes - 1)]

\* Ord for magnitudes without leading zeros: -1, 0 or 1
CmpMag(a, b) ==
    IF Len(a) # Len(b) THEN (IF Len(a) < Len(b) THEN 0 - 1 ELSE 1)
    ELSE LET diff == {i \in 1..Len(a) : a[i] # b[i]}
         IN IF diff = {} THEN 0
            ELSE LET i == CHOOSE k \in diff : \A j \in diff : k <= j
                 IN IF a[i] < b[i] THEN 0 - 1 ELSE 1

\* Ord for BigInt
Cmp(x, y) ==
    IF x.neg # y.neg THEN (IF x.neg THEN 0 - 1 ELSE 1)
    ELSE IF x.neg THEN CmpMag(y.mag, x.mag)
    ELSE CmpMag(x.mag, y.mag)

PadTo(bs, n) == Repeat(0, n - Len(bs)) \o bs

\* A value is evaluated where it is first used, inside whatever is being
\* evaluated there. Where one step needs the result of the step before, the
\* steps are listed in a tuple, which is evaluated from left to right, with
\* the result as its last element, so that each step finds the one before
\* it done.

\* |a| + |b|
AddMag(a, b) ==
    LET n == (IF Len(a) > Len(b) THEN Len(a) ELSE Len(b)) + 1
        pa == PadTo(a, n)
        pb == PadTo(b, n)
    IN <<pa, pb, StripZeros(AddBytes(pa, pb))>>[3]

\* the borrow into byte k from the bytes after it: a byte after k is short
\* by itself and every byte between it and k passes a borrow on
BorrowInto(a, b, k) ==
    \E j \in (k + 1)..Len(a) : a[j] < b[j] /\ \A m \in (k + 1)..(j - 1) : a[m] = b[m]

\* |a| - |b| for |a| >= |b|
SubMag(a, b) ==
    LET pb == PadTo(b, Len(a))
    IN StripZeros([k \in 1..Len(a) |->
           (a[k] - pb[k] - (IF BorrowInto(a, pb, k) THEN 1 ELSE 0) + 256) % 256])

\* |a| * d for one byte d: the low bytes of the byte products, plus their
\* high bytes one place up
MulByte(a, d) ==
    AddMag([k \in 1..Len(a) |-> (a[k] * d) % 256],
           [k \in 1..Len(a) |-> (a[k] * d) \div 256] \o <<0>>)

\* the sum of the byte products a[i] * b[j] that belong to byte p of the
\* product, i + j = p: the products are the counts of a bag
Column(a, b, p) ==
    LET at == {i \in 1..Len(a) : p - i \in 1..Len(b) /\ a[i] * b[p - i] > 0}
    IN BagCardinality([i \in at |-> a[i] * b[p - i]])

\* |a| * |b|, by columns: a column sum is below 2^24, and its three bytes
\* are added in at its own place and the two places above it
MulMag(a, b) ==
    LET n == Len(a) + Len(b)
        col == [p \in 1..(n + 2) |-> IF p \in 2..n THEN Column(a, b, p) ELSE 0]
        units == [p \in 1..n |-> col[p] % 256]
        carries == [p \in 1..n |-> (col[p + 1] \div 256) % 256]
        high == [p \in 1..n |-> col[p + 2] \div 65536]
        partial == AddMag(units, carries)
    IN <<partial, AddMag(partial, high)>>[2]

\* the largest byte d with d * |b| <= |r|, for 0 < |b| and |r| < 256 * |b|.
\* With lead the leading two bytes of b (its one byte, if it has one) and
\* top the bytes of r above the rest of b, the digit lies between
\* top / (lead + 1) and (top + 1) / lead; it is looked for there.
QuotientDigit(r, b) ==
    LET pr == PadTo(r, Len(b) + 1)
        lead == IF Len(b) = 1 THEN b[1] ELSE b[1] * 256 + b[2]
        top == IF Len(b) = 1 THEN pr[1] * 256 + pr[2]
               ELSE pr[1] * 65536 + pr[2] * 256 + pr[3]
        least == top \div (lead + 1)
        most == IF (top + 1) \div lead > 255 THEN 255 ELSE (top + 1) \div lead
        Fits(d) == CmpMag(MulByte(b, d), r) <= 0
    IN CHOOSE d \in least..most : Fits(d) /\ (d = most \/ ~Fits(d + 1))

\* long division of bytes lo..hi of a by |b| > 0, a byte at a time from the
\* remainder left by the bytes before lo: the quotient bytes and the
\* remainder. A longer range is done as eight ranges one after the other,
\* each from the remainder of the one before.
RECURSIVE DivRange(_, _, _, _, _)
DivRange(a, b, lo, hi, rem) ==
    CASE lo > hi -> [q |-> <<>>, rem |-> rem]
      [] lo = hi ->
            LET r == StripZeros(rem \o <<a[lo]>>)
                d == QuotientDigit(r, b)
                p == MulByte(b, d)
            IN <<r, d, p, [q |-> <<d>>, rem |-> SubMag(r, p)]>>[4]
      [] OTHER ->
            LET step == (hi - lo + 8) \div 8
                Part(i, r) ==
                    LET end == lo + (i + 1) * step - 1
                    IN DivRange(a, b, lo + i * step, IF end > hi THEN hi ELSE end, r)
                p1 == Part(0, rem)
                p2 == Part(1, p1.rem)
                p3 == Part(2, p2.rem)
                p4 == Part(3, p3.rem)
                p5 == Part(4, p4.rem)
                p6 == Part(5, p5.rem)
                p7 == Part(6, p6.rem)
                p8 == Part(7, p7.rem)
            IN <<p1, p2, p3, p4, p5, p6, p7, p8,
                 [q |-> p1.q \o p2.q \o p3.q \o p4.q \o p5.q \o p6.q \o p7.q \o p8.q,
                  rem |-> p8.rem]>>[9]

\* the bytes of |a| / |b| for |b| > 0, rounded down, leading zeros included
DivMag(a, b) == DivRange(a, b, 1, Len(a), <<>>).q

\* BigInt: Add, Neg, Sub, Mul, Div (the quotient rounds towards zero)
BigAdd(x, y) ==
    IF x.neg = y.neg THEN FromBiguint(x.neg, AddMag(x.mag, y.mag))
    ELSE LET c == CmpMag(x.mag, y.mag)
         IN IF c = 0 THEN Zero256
            ELSE IF c > 0 THEN FromBiguint(x.neg, SubMag(x.mag, y.mag))
            ELSE FromBiguint(y.neg, SubMag(y.mag, x.mag))
BigNeg(x) == FromBiguint(~x.neg, x.mag)
BigSub(x, y) == BigAdd(x, BigNeg(y))
BigMul(x, y) == FromBiguint(x.neg # y.neg, MulMag(x.mag, y.mag))
BigDiv(x, y) == FromBiguint(x.neg # y.neg, DivMag(x.mag, y.mag))

\* a.$method(&b) on BigInt
BigOp(method, a, b) ==
    CASE method = "add" -> BigAdd(a, b)
      [] method = "sub" -> BigSub(a, b)
      [] method = "mul" -> BigMul(a, b)
      [] method = "div" -> BigDiv(a, b)
      [] method = "neg" -> BigNeg(a)

\* BigInt checked_add / checked_sub / checked_mul / checked_div: None only
\* for a zero divisor
BigCheckedOp(method, a, b) ==
    IF method = "div" /\ b = Zero256 THEN [some |-> FALSE, v |-> Zero256]
    ELSE [some |-> TRUE, v |-> BigOp(method, a, b)]

Panic(cause) == [kind |-> "panic", cause |-> cause, v |-> Zero256]
Value(v) == [kind |-> "value", cause |-> "", v |-> v]

\* variant: the result is compared with max_value only
ForwardOpNoUnderflow(method, a, b) ==
    LET res == BigOp(method, a, b)
    IN IF Cmp(res, MaxValue256) > 0 THEN Panic("overflow") ELSE Value(res)

\* forward_op!: Add, Sub, Mul (int256.rs:171-189)
ForwardOp(method, a, b) ==
    LET res == BigOp(method, a, b)
    IN IF Cmp(res, MaxValue256) > 0 THEN Panic("overflow")
       ELSE IF Cmp(res, MinValue256) < 0 THEN Panic("underflow")
       ELSE Value(res)

\* forward_checked_op! (int256.rs:191-205)
ForwardCheckedOp(method, a, b) ==
    LET r == BigCheckedOp(method, a, b)
    IN IF r.some /\ Cmp(r.v, MinValue256) >= 0 /\ Cmp(r.v, MaxValue256) <= 0
       THEN [kind |-> "some", cause |-> "", v |-> r.v]
       ELSE [kind |-> "none", cause |-> "", v |-> Zero256]

\* forward_assign_op! (int256.rs:207-227): self is changed, then checked
ForwardAssignOp(method, a, b) ==
    LET self == BigOp(method, a, b)
    IN IF Cmp(self, MaxValue256) > 0 THEN Panic("overflow")
       ELSE IF Cmp(self, MinValue256) < 0 THEN Panic("underflow")
       ELSE Value(self)

\* forward_unary_op!: Neg (int256.rs:229-249)
ForwardUnaryOp(method, a) ==
    LET res == BigOp(method, a, a)
    IN IF Cmp(res, MaxValue256) > 0 THEN Panic("overflow")
       ELSE IF Cmp(res, MinValue256) < 0 THEN Panic("underflow")
       ELSE Value(res)

\* the operands: the small values, the two bounds and their neighbours,
\* and the powers of two whose sums and products meet the bounds
ArithDrawn ==
    {FromInt(n) : n \in (0 - MaxSmall)..MaxSmall}
        \cup {MinValue256, MaxValue256,
              [neg |-> TRUE, mag |-> <<127>> \o Repeat(255, I256Bytes - 1)],
              [neg |-> FALSE, mag |-> <<127>> \o Repeat(255, I256Bytes - 2) \o <<254>>],
              [neg |-> FALSE, mag |-> <<64>> \o Repeat(0, I256Bytes - 1)],
              [neg |-> TRUE, mag |-> <<64>> \o Repeat(0, I256Bytes - 1)],
              [neg |-> FALSE, mag |-> <<1>> \o Repeat(0, 16)],
              [neg |-> FALSE, mag |-> <<128>> \o Repeat(0, 15)],
              [neg |-> TRUE, mag |-> <<128>> \o Repeat(0, 15)]}

InitArith ==
    /\ caller = "user"
    /\ authorizers = <<>>
    /\ guards = <<>>
    /\ lastCheck = NoCheck
    /\ acquired = <<>>
    /\ lastDrop = NoDrop
    /\ balance = [a \in Holders |-> 0]
    /\ nft = [i \in 1..MaxNft |-> [owner |-> Nobody, uri |-> ""]]
    /\ hostCommitted = [bal |-> balance, nft |-> nft]
    /\ handles = {}
    /\ txState = "idle"
    /\ lastWithdraw = NoWithdraw
    /\ lastDeposit = NoDeposit
    /\ txLog = NewLog
    /\ store = EmptyStore
    /\ storeCommitted = EmptyStore
    /\ callState = "idle"
    /\ lastCall = NoCall
    /\ removal = NoRemoval
    /\ chain = NoChain
    /\ inherit = NoInherit
    /\ contractDefinitionCount = 0
    /\ interfacesInfos = <<>>
    /\ expansions = <<>>
    /\ codec = NoCodec
    /\ kv = NoKv
    /\ hostStorage = NoStorage
    /\ \E a \in ArithDrawn, b \in ArithDrawn : arith = [NoArith EXCEPT !.a = a, !.b = b]
    /\ emitted = NoEmit

ArithFrame ==
    UNCHANGED <<authVars, assetVars, ledgerVars, removal, chain, inherit, macroVars, codec, kv, hostStorage, emitted>>

Applied(form, method, out) ==
    /\ arith.form = "none"
    /\ arith' = [arith EXCEPT !.form = form, !.method = method, !.out = out]
    /\ ArithFrame

\* a + b, a - b, a * b
ArithOp ==
    \E method \in {"add", "sub", "mul"} :
        Applied("op", method, ForwardOp(method, arith.a, arith.b))

\* a += b, a -= b, a *= b
ArithAssignOp ==
    \E method \in {"add", "sub", "mul"} :
        Applied("assign", method, ForwardAssignOp(method, arith.a, arith.b))

\* -a
ArithNeg == Applied("unary", "neg", ForwardUnaryOp("neg", arith.a))

\* a.checked_add(&b), checked_sub, checked_mul, checked_div
ArithCheckedOp ==
    \E method \in {"add", "sub", "mul", "div"} :
        Applied("checked", method, ForwardCheckedOp(method, arith.a, arith.b))

NextArith ==
    \/ ArithOp
    \/ ArithAssignOp
    \/ ArithNeg
    \/ ArithCheckedOp

SpecArith == InitArith /\ [][NextArith]_vars

\* the integer a small i256 stands for
ToInt(x) ==
    LET m == IF x.mag = <<>> THEN 0 ELSE x.mag[1] IN IF x.neg THEN 0 - m ELSE m
Small(x) == Len(x.mag) <= 1

\* the integer result of a method on small operands
IntOp(method, m, n) ==
    CASE method = "add" -> m + n
      [] method = "sub" -> m - n
      [] method = "mul" -> m * n
      [] method = "neg" -> 0 - m
      [] method = "div" ->
            LET am == IF m < 0 THEN 0 - m ELSE m
                an == IF n < 0 THEN 0 - n ELSE n
                q == am \div an
            IN IF (m < 0) # (n < 0) THEN 0 - q ELSE q

\* r is the exact result of the method on a and b: it undoes to the operands
\* (sum and difference), it is the product the quotient undoes, it is the
\* quotient whose remainder is smaller than the divisor; and on operands of
\* one byte it is the integer result
IsExact(method, a, b, r) ==
    /\ method = "add" => BigSub(r, b) = a /\ BigSub(r, a) = b
    /\ method = "sub" => BigAdd(r, b) = a
    /\ method = "neg" => BigAdd(r, a) = Zero256
    /\ (method = "mul" /\ b # Zero256) =>
          LET quotient == BigDiv(r, b)
              back == BigMul(quotient, b)
          IN quotient = a /\ BigSub(r, back) = Zero256
    /\ (method = "mul" /\ b = Zero256) => r = Zero256
    /\ method = "div" =>
          LET back == BigMul(r, b)
              rest == BigSub(a, back)
          IN /\ CmpMag(rest.mag, b.mag) < 0
             /\ rest = Zero256 \/ rest.neg = a.neg
    /\ (Small(a) /\ Small(b) /\ Small(r)) =>
          ToInt(r) = IntOp(method, ToInt(a), ToInt(b))

\* C38: i256 arithmetic is range-checked. Add, Sub, Mul, Neg and the assign
\* forms give the exact result when it lies in [-2^255, 2^255 - 1] and
\* panic otherwise, with overflow above the range and underflow below it;
\* checked_add, checked_sub, checked_mul and checked_div give None exactly
\* when the divisor is zero or the exact result is outside the range, and
\* Some of the exact result otherwise.
C38_RangeCheckedArithmetic ==
    arith.form # "none" =>
        LET a == arith.a
            b == arith.b
            out == arith.out
            zero_divisor == arith.method = "div" /\ b = Zero256
            exact == IF zero_divisor THEN Zero256 ELSE BigOp(arith.method, a, b)
        IN /\ arith.form \in {"op", "assign", "unary"} =>
                 IF InRange256(exact)
                 THEN out.kind = "value" /\ out.v = exact
                 ELSE /\ out.kind = "panic"
                      /\ out.cause = IF exact.neg THEN "underflow" ELSE "overflow"
           /\ arith.form = "checked" =>
                 IF zero_divisor \/ ~InRange256(exact)
                 THEN out.kind = "none"
                 ELSE out.kind = "some" /\ out.v = exact
           /\ ~zero_divisor => IsExact(arith.method, a, b, exact)

\* max + 1 panicked with overflow
C38_Witness ==
    /\ arith.form = "op"
    /\ arith.method = "add"
    /\ arith.a = MaxValue256
    /\ arith.b = FromInt(1)
    /\ arith.out.kind = "panic"
    /\ arith.out.cause = "overflow"

\* ------------------------------------------------------------------------
\* Events (events.rs:116-170, 192-228; on_chain/mod.rs:115-122)
\* ------------------------------------------------------------------------
\* the most fields an event of the runs explored declares
MaxFields == 2

EventNames == {"TestEvent", "SetResult"}
\* a field of an event struct: whether it is declared indexed, and its value
EventFields == [indexed : BOOLEAN, value : StorageValues]
\* the event values emitted, the event without fields among them
Events ==
    [name : EventNames, fields : UNION {[1..n -> EventFields] : n \in 0..MaxFields}]

\* ItemEvent::indexed_fields: the positions of the indexed fields, as the
\* fields are declared
RECURSIVE IndexedFrom(_, _)
IndexedFrom(fields, i) ==
    IF i > Len(fields) THEN <<>>
    ELSE (IF fields[i].indexed THEN <<i>> ELSE <<>>) \o IndexedFrom(fields, i + 1)
IndexedFields(fields) == IndexedFrom(fields, 1)

\* liquid_primitives::hash::hash of the bytes of the event name
SigHash(name) == [of |-> "name", name |-> name, bytes |-> <<>>]
\* You_Should_Use_An_Valid_Topic_Type::topic of a field value
Topic(value) == [of |-> "field", name |-> "", bytes |-> ScaleEncode(value)]

\* Topics::topics for the event struct: [sig_hash, topic_hash..].to_vec()
EventTopics(event) ==
    LET indexed_fields == IndexedFields(event.fields)
    IN <<SigHash(event.name)>>
           \o [k \in 1..Len(indexed_fields) |->
                  Topic(event.fields[indexed_fields[k]].value)]

\* variant: no field is marked #[codec(skip)]
RECURSIVE EventEncodeKeepsIndexed(_, _)
EventEncodeKeepsIndexed(event, i) ==
    IF i > Len(event.fields) THEN <<>>
    ELSE ScaleEncode(event.fields[i].value) \o EventEncodeKeepsIndexed(event, i + 1)

\* derive(scale::Encode) on the event struct, from field i on: the fields
\* in order, those in indexed_fields marked #[codec(skip)]
RECURSIVE EventEncode(_, _)
EventEncode(event, i) ==
    IF i > Len(event.fields) THEN <<>>
    ELSE (IF Contains(IndexedFields(event.fields), i) THEN <<>>
          ELSE ScaleEncode(event.fields[i].value))
             \o EventEncode(event, i + 1)

InitEvent ==
    /\ caller = "user"
    /\ authorizers = <<>>
    /\ guards = <<>>
    /\ lastCheck = NoCheck
    /\ acquired = <<>>
    /\ lastDrop = NoDrop
    /\ balance = [a \in Holders |-> 0]
    /\ nft = [i \in 1..MaxNft |-> [owner |-> Nobody, uri |-> ""]]
    /\ hostCommitted = [bal |-> balance, nft |-> nft]
    /\ handles = {}
    /\ txState = "idle"
    /\ lastWithdraw = NoWithdraw
    /\ lastDeposit = NoDeposit
    /\ txLog = NewLog
    /\ store = EmptyStore
    /\ storeCommitted = EmptyStore
    /\ callState = "idle"
    /\ lastCall = NoCall
    /\ removal = NoRemoval
    /\ chain = NoChain
    /\ inherit = NoInherit
    /\ contractDefinitionCount = 0
    /\ interfacesInfos = <<>>
    /\ expansions = <<>>
    /\ codec = NoCodec
    /\ kv = NoKv
    /\ hostStorage = NoStorage
    /\ arith = NoArith
    /\ \E event \in Events : emitted = [NoEmit EXCEPT !.event = event]

\* self.env().emit(event): the encoded event and its topics go to ext::log
EmitEvent ==
    /\ ~emitted.done
    /\ emitted' = [emitted EXCEPT !.done = TRUE,
                                  !.data = EventEncode(emitted.event, 1),
                                  !.topics = EventTopics(emitted.event)]
    /\ UNCHANGED <<authVars, assetVars, ledgerVars, removal, chain, inherit, macroVars, codec, kv, hostStorage, arith>>

NextEvent == EmitEvent

SpecEvent == InitEvent /\ [][NextEvent]_vars

NotIndexed(field) == ~field.indexed
IsIndexed(field) == field.indexed

\* reads the values of the given fields, one after the other, from the data
RECURSIVE DecodeFields(_, _)
DecodeFields(fields, bytes) ==
    IF fields = <<>> THEN [ok |-> bytes = <<>>, vs |-> <<>>]
    ELSE LET ty == Head(fields).value.ty
             d == ScaleDecode(ty, bytes)
             used == Len(ScaleEncode([ty |-> ty, v |-> d.v]))
             rest == DecodeFields(Tail(fields), SubSeq(bytes, used + 1, Len(bytes)))
         IN IF d.ok THEN [ok |-> rest.ok, vs |-> <<d.v>> \o rest.vs]
            ELSE [ok |-> FALSE, vs |-> <<>>]

\* C39: for an emitted event the topic list has length 1 + (number of
\* indexed fields). Its first element is the hash of the event name, the
\* others are the topics of the indexed fields in declaration order; the
\* data decodes, with nothing left over, to the values of the non-indexed
\* fields in declaration order. An event with no fields has one topic and
\* empty data.
C39_TopicsAndData ==
    emitted.done =>
        LET fields == emitted.event.fields
            indexed == SelectSeq(fields, IsIndexed)
            plain == SelectSeq(fields, NotIndexed)
            read == DecodeFields(plain, emitted.data)
        IN /\ Len(emitted.topics) = 1 + Len(indexed)
           /\ emitted.topics[1] = SigHash(emitted.event.name)
           /\ \A k \in 1..Len(indexed) : emitted.topics[k + 1] = Topic(indexed[k].value)
           /\ read.ok
           /\ read.vs = [k \in 1..Len(plain) |-> plain[k].value.v]
           /\ plain = <<>> => emitted.data = <<>>
           /\ fields = <<>> => (Len(emitted.topics) = 1 /\ emitted.data = <<>>)

\* an event with an indexed field and a plain field after it was emitted:
\* two topics, and data that holds the plain field alone
C39_Witness ==
    /\ emitted.done
    /\ Len(emitted.event.fields) = 2
    /\ emitted.event.fields[1].indexed
    /\ ~emitted.event.fields[2].indexed
    /\ emitted.event.fields[1].value.ty = "u8"
    /\ emitted.event.fields[2].value.ty = "vec"
    /\ Len(emitted.topics) = 2
    /\ emitted.data = ScaleEncode(emitted.event.fields[2].value)

====
